---- MODULE Spec2Model ----
(***************************************************************************)
(* The javap text parser of JavaClassAnalyzer (parseJavapOutput and its    *)
(* helpers), as a state machine that reads the disassembly one line per    *)
(* step.  A string is a sequence of one-character strings, so that the     *)
(* code's trimming, prefix tests, splitting and regular expressions are    *)
(* computed character by character.                                        *)
(***************************************************************************)
EXTENDS Integers, Sequences, FiniteSets, TLC

\* ------------------------------------------------------------------------
\* Character classes of the regular expressions
\* ------------------------------------------------------------------------

\* \s, and what String.prototype.trim removes
WhiteSpace == {" ", "\t"}

\* \d
Digit == {"0", "1", "2", "3", "4", "5", "6", "7", "8", "9"}

Letter ==
    {"a", "b", "c", "d", "e", "f", "g", "h", "i", "j", "k", "l", "m",
     "n", "o", "p", "q", "r", "s", "t", "u", "v", "w", "x", "y", "z",
     "A", "B", "C", "D", "E", "F", "G", "H", "I", "J", "K", "L", "M",
     "N", "O", "P", "Q", "R", "S", "T", "U", "V", "W", "X", "Y", "Z"}

\* \w
WordChar == Letter \cup Digit \cup {"_"}

\* [a-zA-Z_$]
IdentStart == Letter \cup {"_", "$"}

\* [a-zA-Z0-9_$.]
IdentChar == IdentStart \cup Digit \cup {"."}

\* ------------------------------------------------------------------------
\* String primitives (positions are 0-based as in JavaScript, -1 = none)
\* ------------------------------------------------------------------------

MinOf(S) == CHOOSE x \in S : \A y \in S : x <= y

MaxOf(S) == CHOOSE x \in S : \A y \in S : x >= y

RECURSIVE trimStart(_)
trimStart(s) ==
    IF s # <<>> /\ Head(s) \in WhiteSpace THEN trimStart(Tail(s)) ELSE s

RECURSIVE trimEnd(_)
trimEnd(s) ==
    IF s # <<>> /\ s[Len(s)] \in WhiteSpace
    THEN trimEnd(SubSeq(s, 1, Len(s) - 1))
    ELSE s

trim(s) == trimEnd(trimStart(s))

startsWith(s, prefix) ==
    Len(s) >= Len(prefix) /\ SubSeq(s, 1, Len(prefix)) = prefix

\* s.includes(c), s.indexOf(c, from), s.lastIndexOf(c) for a one-character c
includes(s, c) == \E k \in 1..Len(s) : s[k] = c

indexOf(s, c, from) ==
    LET hits == {k \in from..(Len(s) - 1) : s[k + 1] = c}
    IN  IF hits = {} THEN -1 ELSE MinOf(hits)

lastIndexOf(s, c) ==
    LET hits == {k \in 0..(Len(s) - 1) : s[k + 1] = c}
    IN  IF hits = {} THEN -1 ELSE MaxOf(hits)

\* s.substring(a, b) swaps its arguments when a > b
substring(s, a, b) ==
    IF a <= b THEN SubSeq(s, a + 1, b) ELSE SubSeq(s, b + 1, a)

\* s.split(c) for a one-character separator
RECURSIVE split(_, _)
split(s, c) ==
    LET k == indexOf(s, c, 0)
    IN  IF k = -1
        THEN <<s>>
        ELSE <<SubSeq(s, 1, k)>> \o split(SubSeq(s, k + 2, Len(s)), c)

\* parts.join(sep)
RECURSIVE join(_, _)
join(parts, sep) ==
    IF parts = <<>> THEN <<>>
    ELSE IF Len(parts) = 1 THEN parts[1]
    ELSE parts[1] \o sep \o join(Tail(parts), sep)

\* String(n) for n >= 0
RECURSIVE numberToString(_)
numberToString(n) ==
    LET digit == <<"0", "1", "2", "3", "4", "5", "6", "7", "8", "9">>
    IN  IF n < 10 THEN <<digit[n + 1]>>
        ELSE numberToString(n \div 10) \o <<digit[(n % 10) + 1]>>

\* parseInt(s) for a string of decimal digits
RECURSIVE parseInt(_)
parseInt(s) ==
    LET value == [d \in Digit |->
                    CASE d = "0" -> 0 [] d = "1" -> 1 [] d = "2" -> 2
                      [] d = "3" -> 3 [] d = "4" -> 4 [] d = "5" -> 5
                      [] d = "6" -> 6 [] d = "7" -> 7 [] d = "8" -> 8
                      [] d = "9" -> 9]
    IN  IF Len(s) = 1 THEN value[s[1]]
        ELSE 10 * parseInt(SubSeq(s, 1, Len(s) - 1)) + value[s[Len(s)]]

\* the end (exclusive, 0-based) of the longest run of characters of class C
\* that starts at position p: what a greedy C* consumes
RECURSIVE runEnd(_, _, _)
runEnd(s, p, C) ==
    IF p < Len(s) /\ s[p + 1] \in C THEN runEnd(s, p + 1, C) ELSE p

\* the same for a negated class [^...]
RECURSIVE runEndExcept(_, _, _)
runEndExcept(s, p, C) ==
    IF p < Len(s) /\ s[p + 1] \notin C THEN runEndExcept(s, p + 1, C) ELSE p

\* the literal word occurs in s at position p
matchesAt(s, p, word) ==
    p + Len(word) <= Len(s) /\ SubSeq(s, p + 1, p + Len(word)) = word

\* the value of an absent optional (undefined, a failed match, a null method)
undefined == <<"undefined">>

\* ------------------------------------------------------------------------
\* Literals of the code
\* ------------------------------------------------------------------------

\* "public class", "public interface", "public enum": the declaration test
sPublicClass == <<"p","u","b","l","i","c"," ","c","l","a","s","s">>

sPublicInterface == <<"p","u","b","l","i","c"," ","i","n","t","e","r","f","a","c","e">>

sPublicEnum == <<"p","u","b","l","i","c"," ","e","n","u","m">>

\* "public ": the method-signature test
sPublicSpace == <<"p","u","b","l","i","c"," ">>

\* "LocalVariableTable:"
sLocalVariableTable == <<"L","o","c","a","l","V","a","r","i","a","b","l","e","T","a","b","l","e",":">>

\* "Start", "Slot": the column labels of a variable table
sStart == <<"S","t","a","r","t">>

sSlot == <<"S","l","o","t">>

\* "}", "SourceFile:": the ends of a method
sCloseBrace == <<"}">>

sSourceFile == <<"S","o","u","r","c","e","F","i","l","e",":">>

\* "param": the stem of a synthesized parameter name
sParam == <<"p","a","r","a","m">>

sPublic == <<"p","u","b","l","i","c">>

sExtends == <<"e","x","t","e","n","d","s">>

sImplements == <<"i","m","p","l","e","m","e","n","t","s">>

\* (public|private|protected|static|final|abstract|strictfp)
classModifierWords ==
    {<<"p","u","b","l","i","c">>, <<"p","r","i","v","a","t","e">>, <<"p","r","o","t","e","c","t","e","d">>, <<"s","t","a","t","i","c">>, <<"f","i","n","a","l">>,
     <<"a","b","s","t","r","a","c","t">>, <<"s","t","r","i","c","t","f","p">>}

\* (?:class|interface|enum), in the order of the alternation
classKeywords == <<<<"c","l","a","s","s">>, <<"i","n","t","e","r","f","a","c","e">>, <<"e","n","u","m">>>>

\* modifierWords of parseMethodFromJavap
modifierWords ==
    <<<<"p","u","b","l","i","c">>, <<"p","r","i","v","a","t","e">>, <<"p","r","o","t","e","c","t","e","d">>, <<"s","t","a","t","i","c">>, <<"f","i","n","a","l">>,
      <<"a","b","s","t","r","a","c","t">>, <<"s","y","n","c","h","r","o","n","i","z","e","d">>, <<"n","a","t","i","v","e">>>>

\* the result of parseMethodFromJavap when it returns null
null == [null |-> TRUE]

\* ------------------------------------------------------------------------
\* splitParameters
\* ------------------------------------------------------------------------

RECURSIVE splitParametersLoop(_, _, _, _, _)
splitParametersLoop(paramsStr, i, params, current, angleBracketCount) ==
    IF i >= Len(paramsStr)
    THEN IF trim(current) # <<>> THEN Append(params, trim(current)) ELSE params
    ELSE LET char == paramsStr[i + 1]
         IN  IF char = "<"
             THEN splitParametersLoop(paramsStr, i + 1, params,
                                      Append(current, char), angleBracketCount + 1)
             ELSE IF char = ">"
             THEN splitParametersLoop(paramsStr, i + 1, params,
                                      Append(current, char), angleBracketCount - 1)
             ELSE IF char = "," /\ angleBracketCount = 0
             THEN splitParametersLoop(paramsStr, i + 1,
                                      Append(params, trim(current)), <<>>,
                                      angleBracketCount)
             ELSE splitParametersLoop(paramsStr, i + 1, params,
                                      Append(current, char), angleBracketCount)

\* a split that does not track the nesting of < and >
splitAtEveryComma(paramsStr) ==
    LET parts == split(paramsStr, ",")
        trimmed == [k \in 1..Len(parts) |-> trim(parts[k])]
    IN  IF trimmed[Len(trimmed)] = <<>>
        THEN SubSeq(trimmed, 1, Len(trimmed) - 1)
        ELSE trimmed

splitParameters(paramsStr) == splitParametersLoop(paramsStr, 0, <<>>, <<>>, 0)

\* ------------------------------------------------------------------------
\* parseMethodFromJavap
\* ------------------------------------------------------------------------

\* the while (true) loop that strips the leading modifier words
RECURSIVE stripModifiers(_, _, _)
stripModifiers(remainingLine, modifiers, startIndex) ==
    LET found == {k \in 1..Len(modifierWords) :
                    startsWith(remainingLine, modifierWords[k] \o <<" ">>)}
    IN  IF found = {}
        THEN [modifiers |-> modifiers, startIndex |-> startIndex]
        ELSE LET modifier == modifierWords[MinOf(found)]
             IN  stripModifiers(
                     SubSeq(remainingLine, Len(modifier) + 2, Len(remainingLine)),
                     Append(modifiers, modifier),
                     startIndex + Len(modifier) + 1)

parseMethodFromJavap(line) ==
    LET trimmedLine == trim(line)
        stripped == stripModifiers(trimmedLine, <<>>, 0)
        parenIndex == indexOf(trimmedLine, "(", 0)
        closeParenIndex == indexOf(trimmedLine, ")", parenIndex)
        beforeParen ==
            trim(substring(trimmedLine, stripped.startIndex, parenIndex))
        lastSpaceIndex == lastIndexOf(beforeParen, " ")
        returnType == trim(substring(beforeParen, 0, lastSpaceIndex))
        methodName ==
            trim(SubSeq(beforeParen, lastSpaceIndex + 2, Len(beforeParen)))
        paramsStr ==
            trim(substring(trimmedLine, parenIndex + 1, closeParenIndex))
        paramParts == splitParameters(paramsStr)
        parameters ==
            IF paramsStr # <<>>
            THEN SelectSeq([k \in 1..Len(paramParts) |-> trim(paramParts[k])],
                           LAMBDA trimmedParam : trimmedParam # <<>>)
            ELSE <<>>
    IN  IF parenIndex = -1 THEN null
        ELSE IF closeParenIndex = -1 THEN null
        ELSE IF lastSpaceIndex = -1 THEN null
        ELSE [name |-> methodName,
              returnType |-> returnType,
              parameters |-> parameters,
              modifiers |-> stripped.modifiers]

\* ------------------------------------------------------------------------
\* The variable table
\* ------------------------------------------------------------------------

\* trimmedLine.match(/^\s*\d+\s+\d+\s+(\d+)\s+(\w+)\s+(.+)$/): every class of
\* the expression is disjoint from the one that follows it, so each greedy
\* run is the only way to match; null when the line does not match
paramMatch(trimmedLine) ==
    LET t == trimmedLine
        p0 == runEnd(t, 0, WhiteSpace)
        p1 == runEnd(t, p0, Digit)
        p2 == runEnd(t, p1, WhiteSpace)
        p3 == runEnd(t, p2, Digit)
        p4 == runEnd(t, p3, WhiteSpace)
        p5 == runEnd(t, p4, Digit)
        p6 == runEnd(t, p5, WhiteSpace)
        p7 == runEnd(t, p6, WordChar)
        p8 == runEnd(t, p7, WhiteSpace)
    IN  IF /\ p1 > p0 /\ p2 > p1 /\ p3 > p2 /\ p4 > p3 /\ p5 > p4
           /\ p6 > p5 /\ p7 > p6 /\ p8 > p7 /\ Len(t) > p8
        THEN [slot |-> SubSeq(t, p4 + 1, p5),
              name |-> SubSeq(t, p6 + 1, p7),
              type |-> SubSeq(t, p8 + 1, Len(t))]
        ELSE null

\* methodParameters = {}
noParameters == [slot \in {} |-> <<>>]

\* a recording that keeps every slot, whatever the parameter count
recordAnySlot(parameters, methodParameters, trimmedLine) ==
    LET m == paramMatch(trimmedLine)
    IN  IF m # null
        THEN [s \in DOMAIN methodParameters \cup {parseInt(m.slot)} |->
                 IF s = parseInt(m.slot) THEN m.name ELSE methodParameters[s]]
        ELSE methodParameters

\* the data line of a variable table: methodParameters[slot] = paramName when
\* the slot is below the parameter count of the current method
recordParameter(parameters, methodParameters, trimmedLine) ==
    LET m == paramMatch(trimmedLine)
    IN  IF m # null
        THEN LET slot == parseInt(m.slot)
                 paramName == m.name
             IN  IF slot >= 0 /\ slot < Len(parameters)
                 THEN [s \in DOMAIN methodParameters \cup {slot} |->
                          IF s = slot THEN paramName ELSE methodParameters[s]]
                 ELSE methodParameters
        ELSE methodParameters

\* a rewrite that takes slot 0 for the receiver and parameter j from slot j
updateParametersShifted(parameters, methodParameters) ==
    IF Cardinality(DOMAIN methodParameters) > 0
    THEN [j \in 1..Len(parameters) |->
             parameters[j] \o <<" ">> \o
                 (IF j \in DOMAIN methodParameters
                  THEN methodParameters[j]
                  ELSE sParam \o numberToString(j))]
    ELSE parameters

\* the rewrite of the parameters from "<type>" to "<type> <name>", done only
\* when some name is pending
updateParameters(parameters, methodParameters) ==
    IF Cardinality(DOMAIN methodParameters) > 0
    THEN [j \in 1..Len(parameters) |->
             LET paramType == parameters[j]
                 paramName == IF (j - 1) \in DOMAIN methodParameters
                              THEN methodParameters[j - 1]
                              ELSE sParam \o numberToString(j)
             IN  paramType \o <<" ">> \o paramName]
    ELSE parameters

\* ------------------------------------------------------------------------
\* parseClassDeclaration
\* ------------------------------------------------------------------------

\* the maximal runs of \w characters of s from position p on, in order
RECURSIVE wordRuns(_, _)
wordRuns(s, p) ==
    IF p >= Len(s) THEN <<>>
    ELSE IF s[p + 1] \in WordChar
    THEN <<SubSeq(s, p + 1, runEnd(s, p, WordChar))>>
         \o wordRuns(s, runEnd(s, p, WordChar))
    ELSE wordRuns(s, p + 1)

\* a match of every word, whatever the vocabulary
matchEveryWord(line) == wordRuns(line, 0)

\* line.match(/\b(public|private|protected|static|final|abstract|strictfp)\b/g)
\* || []: between two \b a match is a whole run of \w characters
matchModifiers(line) ==
    SelectSeq(wordRuns(line, 0), LAMBDA w : w \in classModifierWords)

\* (?:class|interface|enum)\s+([a-zA-Z_$][a-zA-Z0-9_$.]*) matched at p: the
\* captured name, or undefined
keywordNameAt(s, p) ==
    LET found == {k \in 1..Len(classKeywords) : matchesAt(s, p, classKeywords[k])}
    IN  IF found = {} THEN undefined
        ELSE LET q == p + Len(classKeywords[MinOf(found)])
                 r == runEnd(s, q, WhiteSpace)
             IN  IF r > q /\ r < Len(s) /\ s[r + 1] \in IdentStart
                 THEN SubSeq(s, r + 1, runEnd(s, r, IdentChar))
                 ELSE undefined

\* the whole expression matched at p: with the optional "public\s+" first,
\* without it when that fails
classMatchAt(s, p) ==
    LET q == p + Len(sPublic)
        r == runEnd(s, q, WhiteSpace)
        withPublic == IF matchesAt(s, p, sPublic) /\ r > q
                      THEN keywordNameAt(s, r)
                      ELSE undefined
    IN  IF withPublic # undefined THEN withPublic ELSE keywordNameAt(s, p)

\* line.match(/(?:public\s+)?(?:class|interface|enum)\s+([a-zA-Z_$][a-zA-Z0-9_$.]*)/)
\* : group 1 of the leftmost match, or undefined
classMatch(line) ==
    LET at == {p \in 0..(Len(line) - 1) : classMatchAt(line, p) # undefined}
    IN  IF at = {} THEN undefined ELSE classMatchAt(line, MinOf(at))

\* extends\s+([a-zA-Z_$][a-zA-Z0-9_$.]*) matched at p
extendsMatchAt(s, p) ==
    LET q == p + Len(sExtends)
        r == runEnd(s, q, WhiteSpace)
    IN  IF matchesAt(s, p, sExtends) /\ r > q /\ r < Len(s)
           /\ s[r + 1] \in IdentStart
        THEN SubSeq(s, r + 1, runEnd(s, r, IdentChar))
        ELSE undefined

\* line.match(/extends\s+([a-zA-Z_$][a-zA-Z0-9_$.]*)/): group 1 of the
\* leftmost match, or undefined
extendsMatch(line) ==
    LET at == {p \in 0..(Len(line) - 1) : extendsMatchAt(line, p) # undefined}
    IN  IF at = {} THEN undefined ELSE extendsMatchAt(line, MinOf(at))

\* implements\s+([^{]+) matched at p: the greedy \s+ gives back its last
\* character when nothing but "{" or the end follows the white space
implementsMatchAt(s, p) ==
    LET q == p + Len(sImplements)
        r == runEnd(s, q, WhiteSpace)
        e == runEndExcept(s, r, {"{"})
    IN  IF ~(matchesAt(s, p, sImplements) /\ r > q) THEN undefined
        ELSE IF e > r THEN SubSeq(s, r + 1, e)
        ELSE IF r > q + 1 THEN SubSeq(s, r, r)
        ELSE undefined

\* line.match(/implements\s+([^{]+)/): group 1 of the leftmost match
implementsMatch(line) ==
    LET at == {p \in 0..(Len(line) - 1) : implementsMatchAt(line, p) # undefined}
    IN  IF at = {} THEN undefined ELSE implementsMatchAt(line, MinOf(at))

parseClassDeclaration(line, analysis) ==
    LET modifiers == matchModifiers(line)
        fullClassName == classMatch(line)
        parts == split(fullClassName, ".")
        named == fullClassName # undefined /\ Len(parts) > 1
        superClass == extendsMatch(line)
        implemented == implementsMatch(line)
        ifaces == split(implemented, ",")
        interfaces == SelectSeq([k \in 1..Len(ifaces) |-> trim(ifaces[k])],
                                LAMBDA iface : iface # <<>>)
    IN  [analysis EXCEPT
            !.modifiers = modifiers,
            !.packageName =
                IF named THEN join(SubSeq(parts, 1, Len(parts) - 1), <<".">>)
                ELSE @,
            !.className = IF named THEN parts[Len(parts)] ELSE @,
            !.superClass = IF superClass # undefined THEN superClass ELSE @,
            !.interfaces = IF implemented # undefined THEN interfaces ELSE @]

\* ------------------------------------------------------------------------
\* Input: class identifiers and disassembly lines
\* ------------------------------------------------------------------------

\* "Foo", "com.example.Foo"
ClassNames == {<<"F","o","o">>, <<"c","o","m",".","e","x","a","m","p","l","e",".","F","o","o">>}

\* "public class Foo extends Bar implements Baz, Qux {"
LineClassFoo == <<"p","u","b","l","i","c"," ","c","l","a","s","s"," ","F","o","o"," ","e","x","t","e","n","d","s"," ","B","a","r"," ","i","m","p","l","e","m","e","n","t","s"," ","B","a","z",","," ","Q","u","x"," ","{">>

\* "public interface com.example.Shape extends java.lang.Comparable"
LineInterfaceShape == <<"p","u","b","l","i","c"," ","i","n","t","e","r","f","a","c","e"," ","c","o","m",".","e","x","a","m","p","l","e",".","S","h","a","p","e"," ","e","x","t","e","n","d","s"," ","j","a","v","a",".","l","a","n","g",".","C","o","m","p","a","r","a","b","l","e">>

\* "public final class com.example.Widget"
LineFinalClass == <<"p","u","b","l","i","c"," ","f","i","n","a","l"," ","c","l","a","s","s"," ","c","o","m",".","e","x","a","m","p","l","e",".","W","i","d","g","e","t">>

\* "public void doWork(java.util.List<String> items, int count)"
LineDoWorkNamed == <<"p","u","b","l","i","c"," ","v","o","i","d"," ","d","o","W","o","r","k","(","j","a","v","a",".","u","t","i","l",".","L","i","s","t","<","S","t","r","i","n","g",">"," ","i","t","e","m","s",","," ","i","n","t"," ","c","o","u","n","t",")">>

\* "  public static java.util.Map<K, V> merge(java.util.Map<K, V>, int);"
LineMerge == <<" "," ","p","u","b","l","i","c"," ","s","t","a","t","i","c"," ","j","a","v","a",".","u","t","i","l",".","M","a","p","<","K",","," ","V",">"," ","m","e","r","g","e","(","j","a","v","a",".","u","t","i","l",".","M","a","p","<","K",","," ","V",">",","," ","i","n","t",")",";">>

\* "  public abstract void run(int);"
LineRun == <<" "," ","p","u","b","l","i","c"," ","a","b","s","t","r","a","c","t"," ","v","o","i","d"," ","r","u","n","(","i","n","t",")",";">>

\* "  public static static void twice();"
LineTwice == <<" "," ","p","u","b","l","i","c"," ","s","t","a","t","i","c"," ","s","t","a","t","i","c"," ","v","o","i","d"," ","t","w","i","c","e","(",")",";">>

\* "  public com.example.Widget(int);"
LineConstructor == <<" "," ","p","u","b","l","i","c"," ","c","o","m",".","e","x","a","m","p","l","e",".","W","i","d","g","e","t","(","i","n","t",")",";">>

\* "  private void helper(int);"
LinePrivate == <<" "," ","p","r","i","v","a","t","e"," ","v","o","i","d"," ","h","e","l","p","e","r","(","i","n","t",")",";">>

\* "  public int count;"
LineField == <<" "," ","p","u","b","l","i","c"," ","i","n","t"," ","c","o","u","n","t",";">>

\* "      LocalVariableTable:"
LineTable == <<" "," "," "," "," "," ","L","o","c","a","l","V","a","r","i","a","b","l","e","T","a","b","l","e",":">>

\* "        Start  Length  Slot  Name   Signature"
LineLabels == <<" "," "," "," "," "," "," "," ","S","t","a","r","t"," "," ","L","e","n","g","t","h"," "," ","S","l","o","t"," "," ","N","a","m","e"," "," "," ","S","i","g","n","a","t","u","r","e">>

\* "0 10 0 items Ljava/util/List;"
LineSlot0 == <<"0"," ","1","0"," ","0"," ","i","t","e","m","s"," ","L","j","a","v","a","/","u","t","i","l","/","L","i","s","t",";">>

\* "0 10 1 count I"
LineSlot1 == <<"0"," ","1","0"," ","1"," ","c","o","u","n","t"," ","I">>

\* "            4       6     2   tmp   I"
LineSlot2 == <<" "," "," "," "," "," "," "," "," "," "," "," ","4"," "," "," "," "," "," "," ","6"," "," "," "," "," ","2"," "," "," ","t","m","p"," "," "," ","I">>

\* ""
LineBlank == <<>>

\* "}"
LineBrace == <<"}">>

\* "SourceFile: \"Foo.java\""
LineSourceFile == <<"S","o","u","r","c","e","F","i","l","e",":"," ","\"","F","o","o",".","j","a","v","a","\"">>

\* the lines a disassembly is drawn from
Lines ==
    {LineInterfaceShape, LineFinalClass, LineMerge, LineRun, LineTwice,
     LineConstructor, LinePrivate, LineField, LineTable, LineLabels,
     LineSlot0, LineSlot2, LineBlank, LineBrace, LineSourceFile}

\* the lines of the example: a class with one method and its variable table
ExampleLines ==
    {LineClassFoo, LineDoWorkNamed, LineTable, LineSlot0, LineSlot1, LineBlank}

\* the longest disassembly read, in lines
MaxLines == 3

\* the longest example disassembly read, in lines
MaxExampleLines == 6

\* "public class Bar extends Base"
LineClassBar == <<"p","u","b","l","i","c"," ","c","l","a","s","s"," ","B","a","r"," ","e","x","t","e","n","d","s"," ","B","a","s","e">>

\* "public class Base"
LineClassBase == <<"p","u","b","l","i","c"," ","c","l","a","s","s"," ","B","a","s","e">>

\* "public class Qux extends Bar"
LineClassQux == <<"p","u","b","l","i","c"," ","c","l","a","s","s"," ","Q","u","x"," ","e","x","t","e","n","d","s"," ","B","a","r">>

\* the lines of the disassemblies of the classes of the project
ProjectLines ==
    {LineClassFoo, LineClassBar, LineClassBase, LineClassQux,
     LineInterfaceShape, LineRun, LineBlank}

\* "  public void resize(int);"
LineResize == <<" "," ","p","u","b","l","i","c"," ","v","o","i","d"," ","r","e","s","i","z","e","(","i","n","t",")",";">>

\* "            0       5     0  this   Lcom/example/Widget;"
LineSlotThis == <<" "," "," "," "," "," "," "," "," "," "," "," ","0"," "," "," "," "," "," "," ","5"," "," "," "," "," ","0"," "," ","t","h","i","s"," "," "," ","L","c","o","m","/","e","x","a","m","p","l","e","/","W","i","d","g","e","t",";">>

\* the lines of the members of a class that carry variable tables: an instance
\* method, a private member, the table header, the receiver's entry, the blank
\* line that ends a table and the closing brace
TableLines ==
    {LineResize, LinePrivate, LineTable, LineSlotThis, LineBlank, LineBrace}

\* the longest text of members and tables read, in lines
MaxTableLines == 6

\* "public class Node<T extends Node>"
LineClassNode == <<"p","u","b","l","i","c"," ","c","l","a","s","s"," ","N","o","d","e","<","T"," ","e","x","t","e","n","d","s"," ","N","o","d","e",">">>

\* "public class Ping extends Pong"
LineClassPing == <<"p","u","b","l","i","c"," ","c","l","a","s","s"," ","P","i","n","g"," ","e","x","t","e","n","d","s"," ","P","o","n","g">>

\* "public class Pong extends Ping"
LineClassPong == <<"p","u","b","l","i","c"," ","c","l","a","s","s"," ","P","o","n","g"," ","e","x","t","e","n","d","s"," ","P","i","n","g">>

\* the lines of the disassemblies of classes whose superclass references loop
LoopLines == {LineClassNode, LineClassPing, LineClassPong, LineBlank}

\* every line of every input
AllLines ==
    Lines \cup ExampleLines \cup ProjectLines \cup TableLines \cup LoopLines

\* ------------------------------------------------------------------------
\* parseJavapOutput: one step per line of the disassembly
\* ------------------------------------------------------------------------

VARIABLES
    className,             \* the class identifier given by the caller
    lines,                 \* the lines read so far: lines[1..i] of the code
    analysis,              \* the ClassAnalysis under construction
    currentMethod,         \* index in analysis.methods of the current method, 0 = null
    inLocalVariableTable,  \* the flag of the same name
    methodParameters,      \* slot -> name, the names pending for the current method
    pc                     \* "loop" inside the for loop, "done" after return

\* the files the services keep, and the calls around the parser
VARIABLES
    indexFile,             \* .mcp-class-index.json: whether it exists, and its content
    cacheFiles,            \* .mcp-decompile-cache: class name -> cached source text
    tempFiles,             \* .mcp-class-temp: the class names with an extracted file
    cfrPath,               \* DecompilerService.cfrPath
    frames,                \* the calls in progress above the parser, innermost last
    events,                \* what the calls have done to their collaborators, in order
    returned               \* how the outermost call ended: returned or threw, and what

parserVars ==
    <<className, lines, analysis, currentMethod, inLocalVariableTable,
      methodParameters, pc>>

fileVars == <<indexFile, cacheFiles, tempFiles>>

callVars == <<frames, events, returned>>

vars ==
    <<className, lines, analysis, currentMethod, inLocalVariableTable,
      methodParameters, pc, indexFile, cacheFiles, tempFiles, cfrPath,
      frames, events, returned>>

\* no index file
noIndexFile ==
    [exists |-> FALSE, jarCount |-> 0, classCount |-> 0, sampleEntries |-> <<>>,
     classIndex |-> <<>>]

\* an empty directory
noFiles == [name \in {} |-> <<>>]

\* no call has ended yet
nothing == [status |-> "none"]

\* a parse on its own: no files, no service, no caller
parserAlone ==
    /\ indexFile = noIndexFile
    /\ cacheFiles = noFiles
    /\ tempFiles = {}
    /\ cfrPath = <<>>
    /\ frames = <<>>
    /\ events = <<>>
    /\ returned = nothing

\* an analysis that starts with the whole identifier as its class name
newAnalysisWholeName(name) ==
    [className |-> name,
     packageName |-> <<>>,
     modifiers |-> <<>>,
     superClass |-> undefined,
     interfaces |-> <<>>,
     fields |-> <<>>,
     methods |-> <<>>]

\* the analysis object as constructed before the loop
newAnalysis(name) ==
    LET parts == split(name, ".")
        last == parts[Len(parts)]
    IN  [className |-> IF last # <<>> THEN last ELSE name,
         packageName |-> <<>>,
         modifiers |-> <<>>,
         superClass |-> undefined,
         interfaces |-> <<>>,
         fields |-> <<>>,
         methods |-> <<>>]

InitWith(names) ==
    /\ className \in names
    /\ lines = <<>>
    /\ analysis = newAnalysis(className)
    /\ currentMethod = 0
    /\ inLocalVariableTable = FALSE
    /\ methodParameters = noParameters
    /\ pc = "loop"
    /\ parserAlone

\* the tests of the loop body, on the trimmed line
isClassDeclaration(trimmedLine) ==
    \/ startsWith(trimmedLine, sPublicClass)
    \/ startsWith(trimmedLine, sPublicInterface)
    \/ startsWith(trimmedLine, sPublicEnum)

isMethodSignature(trimmedLine) ==
    /\ startsWith(trimmedLine, sPublicSpace)
    /\ includes(trimmedLine, "(")
    /\ includes(trimmedLine, ")")

isTableHeader(trimmedLine) == trimmedLine = sLocalVariableTable

isColumnLabel(trimmedLine) ==
    startsWith(trimmedLine, sStart) \/ startsWith(trimmedLine, sSlot)

isMethodEnd(trimmedLine) ==
    \/ isMethodSignature(trimmedLine)
    \/ startsWith(trimmedLine, sCloseBrace)
    \/ startsWith(trimmedLine, sSourceFile)

\* inLocalVariableTable && currentMethod
inTable == inLocalVariableTable /\ currentMethod # 0

\* the line is not taken by one of the first three tests of the loop body
reachesTable(trimmedLine) ==
    /\ ~isClassDeclaration(trimmedLine)
    /\ ~isMethodSignature(trimmedLine)
    /\ ~isTableHeader(trimmedLine)

\* the analysis with the parameters of the current method rewritten
withUpdatedParameters(pending) ==
    [analysis EXCEPT
        !.methods[currentMethod].parameters = updateParameters(@, pending)]

\* line.trim(), for every line of the input
trimmed == [line \in AllLines |-> trim(line)]

\* lines[i] is read
Read(line, max) ==
    /\ pc = "loop"
    /\ Len(lines) < max
    /\ lines' = Append(lines, line)
    /\ UNCHANGED <<className, pc, fileVars, cfrPath, callVars>>

\* a class, interface or enum declaration
ClassDeclarationLine(from, max) ==
    \E line \in from :
        LET trimmedLine == trimmed[line]
        IN  /\ Read(line, max)
            /\ isClassDeclaration(trimmedLine)
            /\ analysis' = parseClassDeclaration(trimmedLine, analysis)
            /\ UNCHANGED <<currentMethod, inLocalVariableTable, methodParameters>>

\* a push that skips a method equal to one already listed
pushDistinct(methods, method) ==
    IF \E m \in 1..Len(methods) : methods[m] = method
    THEN methods
    ELSE Append(methods, method)

\* analysis.methods.push(currentMethod)
push(methods, method) == Append(methods, method)

\* a method signature: the parsed method is pushed and becomes current; when
\* the signature does not parse, the current method becomes null
MethodSignatureLine(from, max) ==
    \E line \in from :
        LET trimmedLine == trimmed[line]
            method == parseMethodFromJavap(trimmedLine)
        IN  /\ Read(line, max)
            /\ ~isClassDeclaration(trimmedLine)
            /\ isMethodSignature(trimmedLine)
            /\ IF method # null
               THEN /\ analysis' = [analysis EXCEPT !.methods = push(@, method)]
                    /\ currentMethod' = Len(analysis'.methods)
                    /\ methodParameters' = noParameters
               ELSE /\ currentMethod' = 0
                    /\ UNCHANGED <<analysis, methodParameters>>
            /\ UNCHANGED inLocalVariableTable

\* the header of a variable table
TableHeaderLine(from, max) ==
    \E line \in from :
        LET trimmedLine == trimmed[line]
        IN  /\ Read(line, max)
            /\ ~isClassDeclaration(trimmedLine)
            /\ ~isMethodSignature(trimmedLine)
            /\ isTableHeader(trimmedLine)
            /\ inLocalVariableTable' = TRUE
            /\ UNCHANGED <<analysis, currentMethod, methodParameters>>

\* the column labels of a variable table
ColumnLabelLine(from, max) ==
    \E line \in from :
        LET trimmedLine == trimmed[line]
        IN  /\ Read(line, max)
            /\ reachesTable(trimmedLine)
            /\ inTable
            /\ isColumnLabel(trimmedLine)
            /\ UNCHANGED <<analysis, currentMethod, inLocalVariableTable,
                           methodParameters>>

\* the empty line that ends a variable table
TableEndLine(from, max) ==
    \E line \in from :
        LET trimmedLine == trimmed[line]
        IN  /\ Read(line, max)
            /\ reachesTable(trimmedLine)
            /\ inTable
            /\ ~isColumnLabel(trimmedLine)
            /\ trimmedLine = <<>>
            /\ analysis' = withUpdatedParameters(methodParameters)
            /\ inLocalVariableTable' = FALSE
            /\ methodParameters' = noParameters
            /\ UNCHANGED currentMethod

\* any other line inside a variable table that does not end the method
TableDataLine(from, max) ==
    \E line \in from :
        LET trimmedLine == trimmed[line]
        IN  /\ Read(line, max)
            /\ reachesTable(trimmedLine)
            /\ inTable
            /\ ~isColumnLabel(trimmedLine)
            /\ trimmedLine # <<>>
            /\ ~isMethodEnd(trimmedLine)
            /\ methodParameters' =
                   recordParameter(analysis.methods[currentMethod].parameters,
                                   methodParameters, trimmedLine)
            /\ UNCHANGED <<analysis, currentMethod, inLocalVariableTable>>

\* a method end that applies the pending names and keeps the method current
MethodEndLineKeepingMethod(from, max) ==
    \E line \in from :
        LET trimmedLine == trimmed[line]
            pending ==
                IF inTable
                THEN recordParameter(analysis.methods[currentMethod].parameters,
                                     methodParameters, trimmedLine)
                ELSE methodParameters
        IN  /\ Read(line, max)
            /\ reachesTable(trimmedLine)
            /\ ~(inTable /\ (isColumnLabel(trimmedLine) \/ trimmedLine = <<>>))
            /\ currentMethod # 0
            /\ isMethodEnd(trimmedLine)
            /\ analysis' = withUpdatedParameters(pending)
            /\ currentMethod' = currentMethod
            /\ inLocalVariableTable' = FALSE
            /\ methodParameters' = noParameters

\* "}" or "SourceFile:" while a method is current, inside a table (after the
\* line was tried as a data line) or outside one
MethodEndLine(from, max) ==
    \E line \in from :
        LET trimmedLine == trimmed[line]
            pending ==
                IF inTable
                THEN recordParameter(analysis.methods[currentMethod].parameters,
                                     methodParameters, trimmedLine)
                ELSE methodParameters
        IN  /\ Read(line, max)
            /\ reachesTable(trimmedLine)
            /\ ~(inTable /\ (isColumnLabel(trimmedLine) \/ trimmedLine = <<>>))
            /\ currentMethod # 0
            /\ isMethodEnd(trimmedLine)
            /\ analysis' = withUpdatedParameters(pending)
            /\ currentMethod' = 0
            /\ inLocalVariableTable' = FALSE
            /\ methodParameters' = noParameters

\* a line that no test of the loop body takes
OtherLine(from, max) ==
    \E line \in from :
        LET trimmedLine == trimmed[line]
        IN  /\ Read(line, max)
            /\ reachesTable(trimmedLine)
            /\ ~inTable
            /\ ~(currentMethod # 0 /\ isMethodEnd(trimmedLine))
            /\ UNCHANGED <<analysis, currentMethod, inLocalVariableTable,
                           methodParameters>>

\* return analysis, once the last line is read
Return ==
    /\ pc = "loop"
    /\ Len(lines) >= 1
    /\ pc' = "done"
    /\ UNCHANGED <<className, lines, analysis, currentMethod,
                   inLocalVariableTable, methodParameters, fileVars, cfrPath,
                   callVars>>

ParseLine(from, max) ==
    \/ ClassDeclarationLine(from, max)
    \/ MethodSignatureLine(from, max)
    \/ TableHeaderLine(from, max)
    \/ ColumnLabelLine(from, max)
    \/ TableEndLine(from, max)
    \/ TableDataLine(from, max)
    \/ MethodEndLine(from, max)
    \/ OtherLine(from, max)

Init == InitWith(ClassNames)

\* any disassembly of at most MaxLines lines
Next == ParseLine(Lines, MaxLines) \/ Return

Spec == Init /\ [][Next]_vars

\* "Foo"
ExampleClassName == <<"F","o","o">>

InitExample == InitWith({ExampleClassName})

\* any disassembly of at most MaxExampleLines lines of the example; the
\* example has no column labels, "}" or "SourceFile:", so the steps for
\* those lines are never enabled and are left out
NextExample ==
    \/ ClassDeclarationLine(ExampleLines, MaxExampleLines)
    \/ MethodSignatureLine(ExampleLines, MaxExampleLines)
    \/ TableHeaderLine(ExampleLines, MaxExampleLines)
    \/ TableEndLine(ExampleLines, MaxExampleLines)
    \/ TableDataLine(ExampleLines, MaxExampleLines)
    \/ OtherLine(ExampleLines, MaxExampleLines)
    \/ Return

SpecExample == InitExample /\ [][NextExample]_vars


\* "com.example.Widget"
TableClassName == <<"c","o","m",".","e","x","a","m","p","l","e",".","W","i","d","g","e","t">>

InitTable == InitWith({TableClassName})

\* any text of at most MaxTableLines lines of members and their variable
\* tables; these lines hold no class declaration and no column labels, so the
\* steps for those lines are never enabled and are left out
NextTable ==
    \/ MethodSignatureLine(TableLines, MaxTableLines)
    \/ TableHeaderLine(TableLines, MaxTableLines)
    \/ TableEndLine(TableLines, MaxTableLines)
    \/ TableDataLine(TableLines, MaxTableLines)
    \/ MethodEndLine(TableLines, MaxTableLines)
    \/ OtherLine(TableLines, MaxTableLines)
    \/ Return

SpecTable == InitTable /\ [][NextTable]_vars
\* ------------------------------------------------------------------------
\* The text read so far, as the properties below speak of it
\* ------------------------------------------------------------------------

\* parseMethodFromJavap of every signature line of the input, null for the
\* lines that are no signature lines
parsed ==
    [line \in AllLines |->
        IF ~isClassDeclaration(trimmed[line]) /\ isMethodSignature(trimmed[line])
        THEN parseMethodFromJavap(trimmed[line])
        ELSE null]

\* the words (runs of \w characters) of every line of the input
wordsOf == [line \in AllLines |-> wordRuns(trimmed[line], 0)]

\* the line is a signature line whose method the parse lists
listsMethod(line) == parsed[line] # null

\* the signature lines read so far, in text order
signatureLines == SelectSeq(lines, listsMethod)

\* the method as its signature line alone gives it
declared(m) == parsed[signatureLines[m]]

\* the names that the variable-table data lines read so far carry
tableNames ==
    {paramMatch(trimmed[lines[k]]).name :
        k \in {i \in 1..Len(lines) : paramMatch(trimmed[lines[i]]) # null}}

\* how many times x occurs in seq
occurrences(seq, x) == Cardinality({k \in 1..Len(seq) : seq[k] = x})

\* the number of names appended to a parameter that was declared as type
namesAppended(parameter, type) ==
    IF startsWith(parameter, type)
    THEN occurrences(SubSeq(parameter, Len(type) + 1, Len(parameter)), " ")
    ELSE -1

\* ------------------------------------------------------------------------
\* C1
\* ------------------------------------------------------------------------

\* C1: when the parse has returned, every parameter of every listed method
\* reads "<type> <name>", the type as declared in the signature and the name
\* either one given by a variable-table line or param<j+1> for position j;
\* none is left as the bare type.
C1_EveryParameterNamed ==
    pc = "done" =>
        \A m \in 1..Len(analysis.methods) :
            /\ m <= Len(signatureLines)
            /\ Len(analysis.methods[m].parameters) = Len(declared(m).parameters)
            /\ \A j \in 1..Len(analysis.methods[m].parameters) :
                   \E name \in tableNames \cup {sParam \o numberToString(j)} :
                       analysis.methods[m].parameters[j] =
                           declared(m).parameters[j] \o <<" ">> \o name

\* ------------------------------------------------------------------------
\* C2
\* ------------------------------------------------------------------------

\* C2: the rewrite of a method's parameters from "<type>" to "<type> <name>"
\* happens exactly once per listed method: a step that rewrites them finds
\* them as declared (never a second time) and names all of them (never
\* partially), and when the parse returns every parameter carries one name.
C2_ReconciledExactlyOnce ==
    [][/\ \A m \in 1..Len(analysis.methods) :
              analysis'.methods[m].parameters # analysis.methods[m].parameters
                  => /\ analysis.methods[m].parameters = declared(m).parameters
                     /\ \A j \in 1..Len(declared(m).parameters) :
                            namesAppended(analysis'.methods[m].parameters[j],
                                          declared(m).parameters[j]) = 1
       /\ pc' = "done" =>
              \A m \in 1..Len(analysis'.methods) :
                  \A j \in 1..Len(declared(m).parameters) :
                      namesAppended(analysis'.methods[m].parameters[j],
                                    declared(m).parameters[j]) = 1
      ]_vars

\* ------------------------------------------------------------------------
\* C3
\* ------------------------------------------------------------------------

\* the last line read is a variable-table data line whose slot is at or
\* beyond the number of parameters of the method that was current before it
\* (or no method was current)
slotBeyondParameters(before, current, line) ==
    LET m == paramMatch(trimmed[line])
    IN  /\ m # null
        /\ \/ current = 0
           \/ parseInt(m.slot) >= Len(before.methods[current].parameters)

\* C3: reading a variable-table data line whose slot is at or beyond the
\* parameter count of the current method changes neither the parameters of
\* any method nor the pending names.
C3_SlotBeyondCountIgnored ==
    [][(/\ Len(lines') = Len(lines) + 1
        /\ slotBeyondParameters(analysis, currentMethod, lines'[Len(lines')]))
           => /\ analysis'.methods = analysis.methods
              /\ methodParameters' = methodParameters
      ]_vars

\* a data line with slot 2 has just been read inside the table of a current
\* method that has two parameters
C3_Witness ==
    /\ inTable
    /\ Len(lines) >= 1
    /\ slotBeyondParameters(analysis, currentMethod, lines[Len(lines)])
    /\ Len(analysis.methods[currentMethod].parameters) = 2

\* ------------------------------------------------------------------------
\* C4
\* ------------------------------------------------------------------------

\* the text between the first "(" of a signature line and the first ")"
\* after it
parameterText(line) ==
    LET t == trimmed[line]
        open == MinOf({k \in 1..Len(t) : t[k] = "("})
        close == MinOf({k \in (open + 1)..Len(t) : t[k] = ")"})
    IN  SubSeq(t, open + 1, close - 1)

\* the commas of s that stand outside every < > pair
topLevelCommas(s) ==
    {k \in 1..Len(s) :
        /\ s[k] = ","
        /\ occurrences(SubSeq(s, 1, k), "<") = occurrences(SubSeq(s, 1, k), ">")}

\* the number of fragments between top-level commas that are not blank
fragmentCount(s) ==
    LET cuts == topLevelCommas(s) \cup {0, Len(s) + 1}
    IN  Cardinality(
            {k \in cuts \ {0} :
                \E i \in (MaxOf({c \in cuts : c < k}) + 1)..(k - 1) :
                    s[i] \notin WhiteSpace})

\* C4: every listed method has as many parameters as its signature line has
\* non-blank fragments between the commas outside < >, at any time of the
\* parse.
C4_ParameterCount ==
    \A m \in 1..Len(analysis.methods) :
        /\ m <= Len(signatureLines)
        /\ Len(analysis.methods[m].parameters) =
               fragmentCount(parameterText(signatureLines[m]))

\* a listed method with two parameters, the first holding a comma inside < >
C4_Witness ==
    \E m \in 1..Len(analysis.methods) :
        /\ Len(analysis.methods[m].parameters) = 2
        /\ includes(analysis.methods[m].parameters[1], ",")

\* ------------------------------------------------------------------------
\* C5
\* ------------------------------------------------------------------------

\* the longest run of modifier words at the start of a sequence of words
leadingModifiers(words) ==
    SubSeq(words, 1,
           MaxOf({n \in 0..Len(words) :
                     \A k \in 1..n : words[k] \in classModifierWords}))

\* a declaration line: modifier words, then class, interface or enum
isDeclarationLine(line) ==
    LET words == wordsOf[line]
        n == Len(leadingModifiers(words))
    IN  /\ n < Len(words)
        /\ words[n + 1] \in {classKeywords[k] : k \in 1..Len(classKeywords)}

\* C5: when the parse has returned, the class modifiers are the modifier
\* words of the (last) declaration line of the text, in their order; so
\* "public final class X" gives <<public, final>>.
C5_DeclarationModifiers ==
    pc = "done" =>
        \A k \in 1..Len(lines) :
            (/\ isDeclarationLine(lines[k])
             /\ \A later \in (k + 1)..Len(lines) : ~isDeclarationLine(lines[later]))
                => analysis.modifiers =
                       leadingModifiers(wordsOf[lines[k]])

\* ------------------------------------------------------------------------
\* C6
\* ------------------------------------------------------------------------

\* the vocabulary of method modifiers
methodModifierWords == {modifierWords[k] : k \in 1..Len(modifierWords)}

\* no element of seq occurs in it twice
noDuplicates(seq) == \A x \in {seq[k] : k \in 1..Len(seq)} : occurrences(seq, x) = 1

lastDeclarationWords ==
    LET at == {k \in 1..Len(lines) : isClassDeclaration(trimmed[lines[k]])}
    IN  IF at = {} THEN <<>> ELSE wordsOf[lines[MaxOf(at)]]

C7_MethodsInTextOrder ==
    /\ Len(analysis.methods) = Len(signatureLines)
    /\ \A m \in 1..Len(analysis.methods) :
           m <= Len(signatureLines) =>
               /\ analysis.methods[m].name = declared(m).name
               /\ analysis.methods[m].returnType = declared(m).returnType
               /\ analysis.methods[m].modifiers = declared(m).modifiers

\* the same signature line read twice, with another between: three entries,
\* the first and the third equal
C7_Witness ==
    /\ Len(analysis.methods) = 3
    /\ analysis.methods[1] = analysis.methods[3]
    /\ analysis.methods[1] # analysis.methods[2]

\* ------------------------------------------------------------------------
\* C8
\* ------------------------------------------------------------------------

\* the example: declaration, method line, variable table with two entries,
\* blank line
ExampleText ==
    <<LineClassFoo, LineDoWorkNamed, LineTable, LineSlot0, LineSlot1, LineBlank>>

\* the example without the header of the variable table
ExampleTextNoHeader ==
    <<LineClassFoo, LineDoWorkNamed, LineSlot0, LineSlot1, LineBlank>>

\* what the example gives apart from the parameters
exampleDeclaration ==
    /\ analysis.className = <<"F","o","o">>
    /\ analysis.superClass = <<"B","a","r">>
    /\ analysis.interfaces = <<<<"B","a","z">>, <<"Q","u","x">>>>
    /\ Len(analysis.methods) = 1
    /\ analysis.methods[1].name = <<"d","o","W","o","r","k">>

\* C8 as claimed: the example parses to Foo, Bar, <<Baz, Qux>> and one method
\* doWork with parameters "java.util.List<String> items" and "int count".
C8_ExampleAsClaimed ==
    (pc = "done" /\ className = ExampleClassName /\ lines = ExampleText) =>
        /\ exampleDeclaration
        /\ analysis.methods[1].parameters =
               <<<<"j","a","v","a",".","u","t","i","l",".","L","i","s","t","<","S","t","r","i","n","g",">"," ","i","t","e","m","s">>, <<"i","n","t"," ","c","o","u","n","t">>>>

\* C8 as amended: the example parses to Foo, Bar, <<Baz, Qux>> and one method
\* doWork whose parameters are "java.util.List<String> items items" and
\* "int count count", the names of the table appended to the fragments of
\* the signature, which carry names already; the parameters stay as the
\* signature has them when the table has no header line.
C8_ExampleParsed ==
    /\ (pc = "done" /\ className = ExampleClassName /\ lines = ExampleText) =>
           /\ exampleDeclaration
           /\ analysis.methods[1].parameters =
                  <<<<"j","a","v","a",".","u","t","i","l",".","L","i","s","t","<","S","t","r","i","n","g",">"," ","i","t","e","m","s"," ","i","t","e","m","s">>, <<"i","n","t"," ","c","o","u","n","t"," ","c","o","u","n","t">>>>
    /\ (pc = "done" /\ className = ExampleClassName
            /\ lines = ExampleTextNoHeader) =>
           /\ exampleDeclaration
           /\ analysis.methods[1].parameters =
                  <<<<"j","a","v","a",".","u","t","i","l",".","L","i","s","t","<","S","t","r","i","n","g",">"," ","i","t","e","m","s">>, <<"i","n","t"," ","c","o","u","n","t">>>>

\* the parse of the example has returned
C8_Witness == pc = "done" /\ className = ExampleClassName /\ lines = ExampleText

\* ------------------------------------------------------------------------
\* C9
\* ------------------------------------------------------------------------

\* the part of a class identifier after its last "."
lastSegment(name) ==
    SubSeq(name, MaxOf({0} \cup {k \in 1..Len(name) : name[k] = "."}) + 1, Len(name))

isFieldLine(line) ==
    LET t == trimmed[line]
    IN  /\ t # <<>>
        /\ t[Len(t)] = ";"
        /\ ~includes(t, "(")
        /\ \E w \in classModifierWords : startsWith(t, w \o <<" ">>)

\* C10: when the parse has returned, fields holds one entry per field line
\* of the text.
C10_FieldsListed ==
    pc = "done" =>
        Len(analysis.fields) =
            Cardinality({k \in 1..Len(lines) : isFieldLine(lines[k])})


\* ------------------------------------------------------------------------
\* The project: its archives, and what the external processes print
\* ------------------------------------------------------------------------

\* the archives of the local repository, in directory order
JarA == <<"m","2","/","a",".","j","a","r">>

JarB == <<"m","2","/","b",".","j","a","r">>

LocalRepoJars == <<JarA, JarB>>

\* an archive whose classes name themselves or each other as superclass
JarC == <<"m","2","/","c",".","j","a","r">>

\* an archive with more classes than a scan result lists as samples
JarWide == <<"m","2","/","w","i","d","e",".","j","a","r">>

WideJarSize == 11

\* entry.fileName of the entries of an archive, in archive order
entriesOf(jarPath) ==
    IF jarPath = JarA
    THEN <<<<"F","o","o",".","c","l","a","s","s">>, <<"F","o","o","$","1",".","c","l","a","s","s">>, <<"B","a","r",".","c","l","a","s","s">>, <<"M","E","T","A","-","I","N","F","/","M","A","N","I","F","E","S","T",".","M","F">>>>
    ELSE IF jarPath = JarB
    THEN <<<<"F","o","o",".","c","l","a","s","s">>, <<"B","a","s","e",".","c","l","a","s","s">>, <<"Q","u","x",".","c","l","a","s","s">>, <<"c","o","m","/","e","x","a","m","p","l","e","/","S","h","a","p","e",".","c","l","a","s","s">>>>
    ELSE IF jarPath = JarC
    THEN <<<<"N","o","d","e",".","c","l","a","s","s">>, <<"P","i","n","g",".","c","l","a","s","s">>, <<"P","o","n","g",".","c","l","a","s","s">>>>
    ELSE IF jarPath = JarWide
    THEN [k \in 1..WideJarSize |-> <<"K">> \o numberToString(k) \o <<".","c","l","a","s","s">>]
    ELSE <<>>

\* the class identifiers of the project
ClassFoo == <<"F","o","o">>

ClassBar == <<"B","a","r">>

ClassBase == <<"B","a","s","e">>

ClassQux == <<"Q","u","x">>

ClassShape == <<"c","o","m",".","e","x","a","m","p","l","e",".","S","h","a","p","e">>

ClassInner == <<"F","o","o","$","1">>

ClassAbsent == <<"G","o","n","e">>

ClassNode == <<"N","o","d","e">>

ClassPing == <<"P","i","n","g">>

ClassPong == <<"P","o","n","g">>

\* stdout of javap -v for a class of the project, as output.split('\n')
disassemblyOf(name) ==
    IF name = ClassFoo THEN <<LineClassFoo, LineRun, LineBlank>>
    ELSE IF name = ClassBar THEN <<LineClassBar, LineBlank>>
    ELSE IF name = ClassBase THEN <<LineBlank, LineClassBase>>
    ELSE IF name = ClassQux THEN <<LineClassQux, LineBlank>>
    ELSE IF name = ClassShape THEN <<LineInterfaceShape, LineBlank>>
    ELSE IF name = ClassNode THEN <<LineClassNode, LineBlank>>
    ELSE IF name = ClassPing THEN <<LineClassPing>>
    ELSE IF name = ClassPong THEN <<LineClassPong, LineBlank>>
    ELSE <<LineBlank>>

\* the messages of the processes that fail
sCommandFailed == <<"C","o","m","m","a","n","d"," ","f","a","i","l","e","d">>

sTimeout == <<"t","i","m","e","o","u","t">>

\* the message of a process that was killed late: it includes 'timeout'
sTimedOut == <<"t","i","m","e","o","u","t"," ","e","x","c","e","e","d","e","d">>

\* what a process can do: exit normally with its output, or fail
succeeded(stdout) == [exit |-> "ok", stdout |-> stdout]

failed(message) == [exit |-> "failed", message |-> message]

\* an operation that ended with an exception
threw(message) == [status |-> "threw", message |-> message]

\* the dependency lists mvn can lead to: the archives of the dependency tree
\* that exist, without duplicates, in the order of the tree
DependencyLists == {<<>>, <<JarA>>, <<JarB>>, <<JarA, JarB>>, <<JarB, JarA>>}

\* what a scan can meet: the outcome of mvn, whether the local repository
\* exists, and the archives that cannot be opened
ScanEnvironments ==
    [mvn : {succeeded(jarPaths) : jarPaths \in DependencyLists}
             \cup {failed(sCommandFailed), failed(sTimedOut)},
     repositoryExists : BOOLEAN,
     unreadable : SUBSET {JarA, JarB}]

\* ------------------------------------------------------------------------
\* DependencyScanner: scanProject
\* ------------------------------------------------------------------------

endsWith(s, suffix) ==
    Len(s) >= Len(suffix) /\ SubSeq(s, Len(s) - Len(suffix) + 1, Len(s)) = suffix

\* s.replace(/c/g, d) for one-character c and d
replaceAll(s, c, d) == [k \in 1..Len(s) |-> IF s[k] = c THEN d ELSE s[k]]

sDotClass == <<".","c","l","a","s","s">>

sArrow == <<" ","-",">"," ">>

\* 'Maven本地仓库不存在'
sNoRepository == <<"n","o"," ","l","o","c","a","l"," ","M","a","v","e","n"," ","r","e","p","o","s","i","t","o","r","y">>

\* path.basename(p)
basename(p) == SubSeq(p, lastIndexOf(p, "/") + 2, Len(p))

\* the index entry of one entry of an archive
classIndexEntry(fileName, jarPath) ==
    LET name == replaceAll(SubSeq(fileName, 1, Len(fileName) - Len(sDotClass)), "/", ".")
        lastDotIndex == lastIndexOf(name, ".")
    IN  [className |-> name,
         jarPath |-> jarPath,
         packageName |-> IF lastDotIndex > 0 THEN substring(name, 0, lastDotIndex) ELSE <<>>,
         simpleName |-> IF lastDotIndex > 0
                        THEN SubSeq(name, lastDotIndex + 2, Len(name))
                        ELSE name]

\* the entries that are classes: *.class without a $
isIndexedEntry(fileName) == endsWith(fileName, sDotClass) /\ ~includes(fileName, "$")

extractClassesFromJar(jarPath) ==
    LET fileNames == SelectSeq(entriesOf(jarPath), isIndexedEntry)
    IN  [k \in 1..Len(fileNames) |-> classIndexEntry(fileNames[k], jarPath)]

\* what the scan did to a collaborator, for the record
ran(process, outcome) ==
    [call |-> process, failed |-> outcome.exit # "ok",
     message |-> IF outcome.exit # "ok" THEN outcome.message ELSE <<>>]

opened(jarPath, unreadable) ==
    [call |-> "extractClassesFromJar", jarPath |-> jarPath,
     failed |-> jarPath \in unreadable]

\* scanLocalMavenRepo: every archive of the local repository
scanLocalMavenRepo(env) ==
    IF ~env.repositoryExists
    THEN threw(sNoRepository)
    ELSE [status |-> "returned", jarPaths |-> LocalRepoJars]

\* getMavenDependencies: the archives of the dependency tree, and the local
\* repository when mvn fails
getMavenDependencies(env) ==
    IF env.mvn.exit = "ok"
    THEN [status |-> "returned", jarPaths |-> env.mvn.stdout]
    ELSE scanLocalMavenRepo(env)

\* a loop over the archives that counts the failing ones as processed
RECURSIVE indexJarsCountingAll(_, _, _)
indexJarsCountingAll(jarPaths, unreadable, sofar) ==
    IF jarPaths = <<>>
    THEN sofar
    ELSE indexJarsCountingAll(Tail(jarPaths), unreadable,
            [classIndex |-> IF Head(jarPaths) \in unreadable
                            THEN sofar.classIndex
                            ELSE sofar.classIndex \o extractClassesFromJar(Head(jarPaths)),
             processedJars |-> sofar.processedJars + 1])

\* the loop over the archives: a failing archive is skipped
RECURSIVE indexJars(_, _, _)
indexJars(jarPaths, unreadable, sofar) ==
    IF jarPaths = <<>>
    THEN sofar
    ELSE indexJars(Tail(jarPaths), unreadable,
            IF Head(jarPaths) \in unreadable
            THEN sofar
            ELSE [classIndex |-> sofar.classIndex \o extractClassesFromJar(Head(jarPaths)),
                  processedJars |-> sofar.processedJars + 1])

\* classIndex.slice(0, 10)
SampleSize == 10

sampleEntry(entry) == entry.className \o sArrow \o basename(entry.jarPath)

\* the ScanResult of an index file
scanResult(file) ==
    [jarCount |-> file.jarCount, classCount |-> file.classCount,
     sampleEntries |-> file.sampleEntries]

\* a test of the stored index that never takes it
neverUsesStoredIndex(forceRefresh, file) == FALSE

\* !forceRefresh && await fs.pathExists(indexPath)
usesStoredIndex(forceRefresh, file) == ~forceRefresh /\ file.exists

\* scanProject on a project with the given index file: how the call ends, the
\* index file it leaves and what it did
scanProject(project, forceRefresh, env) ==
    LET file == IF forceRefresh /\ project.exists THEN noIndexFile ELSE project
        dependencies == getMavenDependencies(env)
        run == <<ran("mvn", env.mvn)>>
    IN  IF usesStoredIndex(forceRefresh, file)
        THEN [status |-> "returned", result |-> scanResult(file),
              indexFile |-> file, events |-> <<>>]
        ELSE IF dependencies.status = "threw"
        THEN [status |-> "threw", message |-> dependencies.message,
              indexFile |-> file, events |-> run]
        ELSE LET jarPaths == dependencies.jarPaths
                 index == indexJars(jarPaths, env.unreadable,
                                    [classIndex |-> <<>>, processedJars |-> 0])
                 classIndex == index.classIndex
                 written ==
                     [exists |-> TRUE,
                      jarCount |-> index.processedJars,
                      classCount |-> Len(classIndex),
                      sampleEntries |->
                          [k \in 1..MinOf({SampleSize, Len(classIndex)}) |->
                              sampleEntry(classIndex[k])],
                      classIndex |-> classIndex]
             IN  [status |-> "returned", result |-> scanResult(written),
                  indexFile |-> written,
                  events |-> run \o [k \in 1..Len(jarPaths) |->
                                        opened(jarPaths[k], env.unreadable)]]

\* ------------------------------------------------------------------------
\* DependencyScanner: reading the class index
\* ------------------------------------------------------------------------

\* the messages of the errors, in English for
\* '类索引不存在，请先运行依赖扫描', '未找到类 ${className} 对应的JAR包' and
\* 'javap 分析失败: ${message}'
sNoIndex == <<"n","o"," ","c","l","a","s","s"," ","i","n","d","e","x">>

sNoJarBefore == <<"n","o"," ","J","A","R"," ","f","o","r"," ","c","l","a","s","s"," ">>

sNoJarAfter == <<>>

sJavapFailed == <<"j","a","v","a","p"," ","f","a","i","l","e","d",":"," ">>

\* a lookup that answers with the last entry of the class
findLastJarForClass(project, name) ==
    LET classIndex == project.classIndex
        found == {k \in 1..Len(classIndex) : classIndex[k].className = name}
    IN  IF ~project.exists
        THEN threw(sNoIndex)
        ELSE [status |-> "returned",
              value |-> IF found = {} THEN null
                        ELSE [jarPath |-> classIndex[MaxOf(found)].jarPath]]

\* findJarForClass on a project with the given index file: the jarPath of
\* the first entry with the class name, null when there is none, an error
\* when there is no index file
findJarForClass(project, name) ==
    LET classIndex == project.classIndex
        found == {k \in 1..Len(classIndex) : classIndex[k].className = name}
    IN  IF ~project.exists
        THEN threw(sNoIndex)
        ELSE [status |-> "returned",
              value |-> IF found = {} THEN null
                        ELSE [jarPath |-> classIndex[MinOf(found)].jarPath]]

\* classIndex.map(entry => entry.className), [] without an index file
getAllClassNames(project) ==
    IF ~project.exists
    THEN <<>>
    ELSE [k \in 1..Len(project.classIndex) |-> project.classIndex[k].className]

\* ------------------------------------------------------------------------
\* JavaClassAnalyzer: analyzeClass and the traversals built on it
\* ------------------------------------------------------------------------

\* analyzeClass up to the call of the parser: the text javap printed, or the
\* error thrown; javap is what the process did, its exit and its output
analyzeClass(project, name, javap) ==
    LET jar == findJarForClass(project, name)
    IN  IF jar.status = "threw"
        THEN jar
        ELSE IF jar.value = null
        THEN threw(sNoJarBefore \o name \o sNoJarAfter)
        ELSE IF javap.exit # "ok"
        THEN threw(sJavapFailed \o javap.message)
        ELSE [status |-> "stdout", stdout |-> javap.stdout]

\* a parser whose list of methods outlives the call
parseJavapOutputKeepingMethods(name) ==
    /\ className' = name
    /\ lines' = <<>>
    /\ analysis' = [newAnalysis(name) EXCEPT !.methods = analysis.methods]
    /\ currentMethod' = 0
    /\ inLocalVariableTable' = FALSE
    /\ methodParameters' = noParameters
    /\ pc' = "loop"

\* the locals of a new call of parseJavapOutput
parseJavapOutput(name) ==
    /\ className' = name
    /\ lines' = <<>>
    /\ analysis' = newAnalysis(name)
    /\ currentMethod' = 0
    /\ inLocalVariableTable' = FALSE
    /\ methodParameters' = noParameters
    /\ pc' = "loop"

\* the innermost call in progress
top == frames[Len(frames)]

\* the innermost call with some of its locals changed
withTop(frame) == [frames EXCEPT ![Len(frames)] = frame]

\* the caller waits for the analysis of the text javap printed
parsing == frames # <<>> /\ top.at = "parsing"

\* output.split('\n') of the call of the parser in progress
stdoutLines == IF parsing THEN top.stdout ELSE <<>>

\* lines[i] of that call
nextLine ==
    IF Len(lines) < Len(stdoutLines) THEN {stdoutLines[Len(lines) + 1]} ELSE {}

\* the steps of the parser on the text of the caller
StdoutDeclarationLine == ClassDeclarationLine(nextLine, Len(stdoutLines))

StdoutSignatureLine == MethodSignatureLine(nextLine, Len(stdoutLines))

StdoutOtherLine == OtherLine(nextLine, Len(stdoutLines))

\* return analysis, to the caller
StdoutReturn == parsing /\ Len(lines) = Len(stdoutLines) /\ Return

\* one call of analyzeClass that ended, for the record
analyzed(name, thrown, superClass) ==
    [call |-> "analyzeClass", className |-> name, failed |-> thrown,
     superClass |-> superClass]

\* the parser between two calls
parserIdle ==
    /\ className = <<>>
    /\ lines = <<>>
    /\ analysis = newAnalysis(<<>>)
    /\ currentMethod = 0
    /\ inLocalVariableTable = FALSE
    /\ methodParameters = noParameters
    /\ pc = "done"

\* the index files a scan of the project can leave
IndexFiles ==
    {scanProject(noIndexFile, FALSE, env).indexFile : env \in ScanEnvironments}

\* what javap can do for a class: print its disassembly, or fail
javapOutcomes(name) == {succeeded(disassemblyOf(name)), failed(sCommandFailed)}

\* ---- findSubClasses ----

\* the test of a scan that keeps every class with a superclass
hasSuperClass(superClass, name) == superClass # undefined

\* analysis.superClass === className
isSubClass(superClass, name) == superClass = name

\* the catch of a scan that gives up at the first class it cannot analyze
giveUp(frame) == [frame EXCEPT !.i = Len(frame.allClasses) + 1]

\* catch (error) { }: the class is ignored, the loop goes on
ignoreFailure(frame) == [frame EXCEPT !.i = @ + 1]

\* the candidates a subclass search is asked about
Targets == {ClassBar, ClassBase, ClassAbsent}

\* findSubClasses(className, projectPath) is called
FindSubClassesCall ==
    /\ frames = <<>>
    /\ returned = nothing
    /\ \E name \in Targets :
        frames' = <<[fn |-> "findSubClasses", at |-> "loop", className |-> name,
                     allClasses |-> getAllClassNames(indexFile), subClasses |-> <<>>,
                     i |-> 1]>>
    /\ UNCHANGED <<parserVars, fileVars, cfrPath, events, returned>>

\* the loop is at a class to analyze
atCandidate ==
    /\ frames # <<>>
    /\ top.fn = "findSubClasses"
    /\ top.at = "loop"
    /\ top.i <= Len(top.allClasses)

\* analyzeClass(cls) throws: the lookup or javap failed
CandidateThrows ==
    /\ atCandidate
    /\ LET cls == top.allClasses[top.i]
       IN  \E javap \in javapOutcomes(cls) :
            /\ analyzeClass(indexFile, cls, javap).status = "threw"
            /\ frames' = withTop(ignoreFailure(top))
            /\ events' = Append(events, analyzed(cls, TRUE, undefined))
    /\ UNCHANGED <<parserVars, fileVars, cfrPath, returned>>

\* analyzeClass(cls) has the text of javap and calls the parser
CandidateDisassembled ==
    /\ atCandidate
    /\ LET cls == top.allClasses[top.i]
       IN  \E javap \in javapOutcomes(cls) :
            LET text == analyzeClass(indexFile, cls, javap)
            IN  /\ text.status = "stdout"
                /\ frames' = withTop([top EXCEPT !.at = "parsing"]
                                        @@ [stdout |-> text.stdout])
                /\ parseJavapOutput(cls)
    /\ UNCHANGED <<fileVars, cfrPath, events, returned>>

\* analyzeClass(cls) returns the analysis: the class is kept or not
CandidateAnalyzed ==
    /\ frames # <<>>
    /\ top.fn = "findSubClasses"
    /\ top.at = "parsing"
    /\ pc = "done"
    /\ LET cls == top.allClasses[top.i]
           frame == [fn |-> "findSubClasses", at |-> "loop",
                     className |-> top.className, allClasses |-> top.allClasses,
                     subClasses |-> IF isSubClass(analysis.superClass, top.className)
                                    THEN Append(top.subClasses, cls)
                                    ELSE top.subClasses,
                     i |-> top.i + 1]
       IN  /\ frames' = withTop(frame)
           /\ events' = Append(events, analyzed(cls, FALSE, analysis.superClass))
    /\ UNCHANGED <<parserVars, fileVars, cfrPath, returned>>

\* return subClasses
FindSubClassesReturn ==
    /\ frames # <<>>
    /\ top.fn = "findSubClasses"
    /\ top.at = "loop"
    /\ top.i > Len(top.allClasses)
    /\ returned' = [status |-> "returned", call |-> "findSubClasses",
                    className |-> top.className, value |-> top.subClasses]
    /\ frames' = <<>>
    /\ UNCHANGED <<parserVars, fileVars, cfrPath, events>>

\* ---- getInheritanceHierarchy ----

\* a prepending that appends instead
pushItems(hierarchy, items) == hierarchy \o items

\* hierarchy.unshift(...items)
unshift(hierarchy, items) == items \o hierarchy

\* the classes a hierarchy is asked for
Roots == {ClassFoo, ClassQux, ClassShape, ClassInner}

\* the locals of a call of getInheritanceHierarchy before its first await
hierarchyFrame(name) ==
    [fn |-> "getInheritanceHierarchy", at |-> "analyze", className |-> name,
     hierarchy |-> <<>>, superClass |-> undefined]

\* getInheritanceHierarchy(className, projectPath) is called for a class
HierarchyCallFor(roots) ==
    /\ frames = <<>>
    /\ returned = nothing
    /\ \E name \in roots : frames' = <<hierarchyFrame(name)>>
    /\ UNCHANGED <<parserVars, fileVars, cfrPath, events, returned>>

HierarchyCall == HierarchyCallFor(Roots)

\* the deepest nesting of calls of getInheritanceHierarchy that is followed
MaxDepth == 4

atAnalyze ==
    /\ frames # <<>>
    /\ top.fn = "getInheritanceHierarchy"
    /\ top.at = "analyze"

\* the frames below the innermost, the one of the caller changed
withCaller(frame) == [SubSeq(frames, 1, Len(frames) - 1) EXCEPT ![Len(frames) - 1] = frame]

caller == frames[Len(frames) - 1]

\* analyzeClass(className) throws: the call fails, and the call for the
\* subclass, if there is one, catches and records the name it asked about
HierarchyThrows ==
    /\ atAnalyze
    /\ \E javap \in javapOutcomes(top.className) :
        LET outcome == analyzeClass(indexFile, top.className, javap)
        IN  /\ outcome.status = "threw"
            /\ events' = Append(events, analyzed(top.className, TRUE, undefined))
            /\ IF Len(frames) = 1
               THEN /\ frames' = <<>>
                    /\ returned' = [status |-> "threw",
                                    call |-> "getInheritanceHierarchy",
                                    className |-> top.className,
                                    message |-> outcome.message]
               ELSE /\ frames' = withCaller(
                          [caller EXCEPT
                              !.hierarchy = unshift(@, <<caller.superClass>>),
                              !.at = "return"])
                    /\ UNCHANGED returned
    /\ UNCHANGED <<parserVars, fileVars, cfrPath>>

\* analyzeClass(className) has the text of javap and calls the parser
HierarchyDisassembled ==
    /\ atAnalyze
    /\ \E javap \in javapOutcomes(top.className) :
        LET text == analyzeClass(indexFile, top.className, javap)
        IN  /\ text.status = "stdout"
            /\ frames' = withTop([top EXCEPT !.at = "parsing"]
                                    @@ [stdout |-> text.stdout])
            /\ parseJavapOutput(top.className)
    /\ UNCHANGED <<fileVars, cfrPath, events, returned>>

\* analyzeClass(className) returns: hierarchy = [className], and the
\* recursive call for the superclass, if the analysis has one
HierarchyAnalyzed ==
    /\ frames # <<>>
    /\ top.fn = "getInheritanceHierarchy"
    /\ top.at = "parsing"
    /\ pc = "done"
    /\ analysis.superClass # undefined => Len(frames) < MaxDepth
    /\ LET frame == [hierarchyFrame(top.className) EXCEPT
                        !.hierarchy = <<top.className>>,
                        !.superClass = analysis.superClass]
       IN  IF analysis.superClass # undefined
           THEN frames' = Append(withTop([frame EXCEPT !.at = "super"]),
                                 hierarchyFrame(analysis.superClass))
           ELSE frames' = withTop([frame EXCEPT !.at = "return"])
    /\ events' = Append(events, analyzed(top.className, FALSE, analysis.superClass))
    /\ UNCHANGED <<parserVars, fileVars, cfrPath, returned>>

\* return hierarchy, to the call for the subclass or to the first caller
HierarchyReturn ==
    /\ frames # <<>>
    /\ top.fn = "getInheritanceHierarchy"
    /\ top.at = "return"
    /\ IF Len(frames) = 1
       THEN /\ frames' = <<>>
            /\ returned' = [status |-> "returned",
                            call |-> "getInheritanceHierarchy",
                            className |-> top.className,
                            value |-> top.hierarchy]
       ELSE /\ frames' = withCaller(
                  [caller EXCEPT
                      !.hierarchy = unshift(@, top.hierarchy),
                      !.at = "return"])
            /\ UNCHANGED returned
    /\ UNCHANGED <<parserVars, fileVars, cfrPath, events>>

\* ---- the traversals of a project that has been scanned, or not ----

InitTraversal ==
    /\ parserIdle
    /\ indexFile \in IndexFiles \cup {noIndexFile}
    /\ cacheFiles = noFiles
    /\ tempFiles = {}
    /\ cfrPath = <<>>
    /\ frames = <<>>
    /\ events = <<>>
    /\ returned = nothing

NextTraversal ==
    \/ FindSubClassesCall
    \/ CandidateThrows
    \/ CandidateDisassembled
    \/ CandidateAnalyzed
    \/ FindSubClassesReturn
    \/ HierarchyCall
    \/ HierarchyThrows
    \/ HierarchyDisassembled
    \/ HierarchyAnalyzed
    \/ HierarchyReturn
    \/ StdoutDeclarationLine
    \/ StdoutSignatureLine
    \/ StdoutOtherLine
    \/ StdoutReturn

SpecTraversal == InitTraversal /\ [][NextTraversal]_vars

\* ---- the hierarchy of classes whose superclass references loop ----

\* the classes a hierarchy is asked for
LoopRoots == {ClassNode, ClassPing, ClassPong, ClassFoo, ClassQux}

\* the index files of the projects that depend on the archive of such classes
LoopIndexFiles ==
    {scanProject(noIndexFile, FALSE,
                 [mvn |-> succeeded(jarPaths), repositoryExists |-> TRUE,
                  unreadable |-> {}]).indexFile :
        jarPaths \in {<<JarC>>, <<JarB, JarC>>}}

InitLoop ==
    /\ parserIdle
    /\ indexFile \in LoopIndexFiles
    /\ cacheFiles = noFiles
    /\ tempFiles = {}
    /\ cfrPath = <<>>
    /\ frames = <<>>
    /\ events = <<>>
    /\ returned = nothing

NextLoop ==
    \/ HierarchyCallFor(LoopRoots)
    \/ HierarchyThrows
    \/ HierarchyDisassembled
    \/ HierarchyAnalyzed
    \/ HierarchyReturn
    \/ StdoutDeclarationLine
    \/ StdoutSignatureLine
    \/ StdoutOtherLine
    \/ StdoutReturn

SpecLoop == InitLoop /\ [][NextLoop]_vars

\* ------------------------------------------------------------------------
\* DecompilerService
\* ------------------------------------------------------------------------

\* the CFR archive findCfrJar can find, and one a caller can name
CfrJar == <<"l","i","b","/","c","f","r",".","j","a","r">>

OtherCfrJar == <<"x","/","c","f","r",".","j","a","r">>

\* stdout of CFR for the class file taken from an archive
sourceOf(name, jarPath) == <<"c","l","a","s","s"," ">> \o name \o <<" ","/","/"," ">> \o basename(jarPath)

\* the messages of the errors, in English for
\* '未找到CFR反编译工具。请下载CFR jar包到lib目录或设置CFR_PATH环境变量',
\* '查找JAR包超时',
\* '未找到类 ${className} 对应的JAR包，请先运行 scan_dependencies 建立类索引',
\* '无法打开JAR包 ${jarPath}: ${err.message}',
\* '在JAR包 ${jarPath} 中未找到类文件: ${classFileName}',
\* 'CFR反编译返回空结果，可能是类文件损坏或CFR版本不兼容',
\* 'CFR反编译超时，请检查Java环境和CFR工具', 'CFR反编译失败: ${message}'
\* and '// 反编译失败: ${error}'
sNoCfr == <<"C","F","R"," ","n","o","t"," ","f","o","u","n","d">>

sLookupTimeout == <<"J","A","R"," ","l","o","o","k","u","p"," ","t","i","m","e","d"," ","o","u","t">>

sRunScan == <<","," ","r","u","n"," ","s","c","a","n","_","d","e","p","e","n","d","e","n","c","i","e","s">>

sCannotOpen == <<"c","a","n","n","o","t"," ","o","p","e","n"," ","J","A","R"," ">>

sNotInJar == <<"n","o"," ","c","l","a","s","s"," ","f","i","l","e"," ","i","n"," ","J","A","R"," ">>

sEmptyResult == <<"C","F","R"," ","r","e","t","u","r","n","e","d"," ","n","o","t","h","i","n","g">>

sCfrTimeout == <<"C","F","R"," ","t","i","m","e","d"," ","o","u","t">>

sCfrFailed == <<"C","F","R"," ","f","a","i","l","e","d",":"," ">>

sPlaceholder == <<"/","/"," ","d","e","c","o","m","p","i","l","e"," ","f","a","i","l","e","d",":"," ">>

\* String(error) of an Error
sError == <<"E","r","r","o","r",":"," ">>

\* s.includes(t)
contains(s, t) ==
    \E p \in 0..(Len(s) - Len(t)) : SubSeq(s, p + 1, p + Len(t)) = t

\* what one call of decompileClass can meet: the archive findCfrJar finds
\* ('' when none), and the step that fails, if one does
Faults == {"none", "lookup", "open", "cfrFailed", "cfrTimedOut", "cfrEmpty"}

DecompileEnvironments == [cfrJar : {<<>>, CfrJar}, fault : Faults]

\* the CFR process under a fault
cfrOutcome(env, name, jarPath) ==
    IF env.fault = "cfrFailed" THEN failed(sCommandFailed)
    ELSE IF env.fault = "cfrTimedOut" THEN failed(sTimedOut)
    ELSE IF env.fault = "cfrEmpty" THEN succeeded(<<>>)
    ELSE succeeded(sourceOf(name, jarPath))

\* a step of decompileClass, for the record
did(step, name) == [call |-> step, className |-> name]

\* the fields of the service and the directories it writes
serviceOf(path, cache, temp) ==
    [cfrPath |-> path, cacheFiles |-> cache, tempFiles |-> temp]

\* how a call ended, with the service as it leaves it and what it did
endOf(outcome, service, steps) ==
    outcome @@ service @@ [events |-> steps]

\* extractClassFile: the class file is written under .mcp-class-temp
extractClassFile(jarPath, name, env) ==
    LET classFileName == replaceAll(name, ".", "/") \o sDotClass
        fileNames == entriesOf(jarPath)
    IN  IF env.fault = "open"
        THEN threw(sCannotOpen \o jarPath \o <<":"," ">> \o sCommandFailed)
        ELSE IF \E k \in 1..Len(fileNames) : fileNames[k] = classFileName
        THEN [status |-> "returned"]
        ELSE threw(sNotInJar \o jarPath \o <<":"," ">> \o classFileName)

\* decompileWithCfr: stdout of CFR, or the error thrown
decompileWithCfr(path, process) ==
    IF path = <<>>
    THEN threw(sNoCfr)
    ELSE IF process.exit # "ok"
    THEN IF contains(process.message, sTimeout)
         THEN threw(sCfrTimeout)
         ELSE threw(sCfrFailed \o process.message)
    ELSE IF trim(process.stdout) = <<>>
    THEN threw(sCfrFailed \o sEmptyResult)
    ELSE [status |-> "returned", value |-> process.stdout]

\* a cache test that does not look at useCache
cacheExists(useCache, cache, name) == name \in DOMAIN cache

\* useCache && await fs.pathExists(cachePath)
readsCache(useCache, cache, name) == useCache /\ name \in DOMAIN cache

\* decompileClass on a project with the given index file: how the call ends,
\* the service and the directories as it leaves them, and what it did
decompileClass(project, service, name, useCache, cfrArg, env) ==
    LET path == IF cfrArg # <<>> THEN cfrArg
                ELSE IF service.cfrPath # <<>> THEN service.cfrPath
                ELSE env.cfrJar
        found == serviceOf(path, service.cacheFiles, service.tempFiles)
        jar == findJarForClass(project, name)
        lookup == <<did("findJarForClass", name)>>
        file == extractClassFile(jar.value.jarPath, name, env)
        extract == lookup \o <<did("extractClassFile", name)>>
        extracted == serviceOf(path, service.cacheFiles,
                               service.tempFiles \cup {name})
        source == decompileWithCfr(path, cfrOutcome(env, name, jar.value.jarPath))
        cfr == extract \o <<did("decompileWithCfr", name)>>
    IN  IF path = <<>>
        THEN endOf(threw(sNoCfr), service, <<>>)
        ELSE IF readsCache(useCache, service.cacheFiles, name)
        THEN endOf([status |-> "returned", value |-> service.cacheFiles[name]],
                   found, <<did("readCache", name)>>)
        ELSE IF jar.status = "threw"
        THEN endOf(jar, found, lookup)
        ELSE IF env.fault = "lookup"
        THEN endOf(threw(sLookupTimeout), found, lookup)
        ELSE IF jar.value = null
        THEN endOf(threw(sNoJarBefore \o name \o sRunScan), found, lookup)
        ELSE IF file.status = "threw"
        THEN endOf(file, found, extract)
        ELSE IF source.status = "threw"
        THEN endOf(source, extracted, cfr)
        ELSE IF useCache
        THEN endOf(source,
                   serviceOf(path,
                             (name :> source.value) @@ service.cacheFiles,
                             service.tempFiles \cup {name}),
                   cfr \o <<did("writeCache", name)>>)
        ELSE endOf(source,
                   serviceOf(path, service.cacheFiles, service.tempFiles \ {name}),
                   cfr \o <<did("remove", name)>>)

\* the catch of a batch that leaves the failed class out of the results
dropFailure(results, name, message) == results

\* results.set(className, `// 反编译失败: ${error}`)
recordFailure(results, name, message) ==
    (name :> (sPlaceholder \o sError \o message)) @@ results

\* decompileClasses: the loop over classNames, one environment for each call
RECURSIVE decompileClassesFrom(_, _, _, _, _, _, _, _)
decompileClassesFrom(project, service, classNames, useCache, cfrArg, envs, results, steps) ==
    IF classNames = <<>>
    THEN endOf([status |-> "returned", value |-> results], service, steps)
    ELSE LET name == Head(classNames)
             end == decompileClass(project, service, name, useCache, cfrArg, Head(envs))
         IN  decompileClassesFrom(
                 project,
                 serviceOf(end.cfrPath, end.cacheFiles, end.tempFiles),
                 Tail(classNames), useCache, cfrArg, Tail(envs),
                 IF end.status = "threw"
                 THEN recordFailure(results, name, end.message)
                 ELSE (name :> end.value) @@ results,
                 steps \o <<did("decompileClass", name)
                             @@ [failed |-> end.status = "threw"]>>
                       \o end.events)

decompileClasses(project, service, classNames, useCache, cfrArg, envs) ==
    decompileClassesFrom(project, service, classNames, useCache, cfrArg, envs,
                         noFiles, <<>>)

\* ---- calls of the decompiler on a project, scanned or not ----

\* the class names the decompiler is asked for: one that two archives hold,
\* and one that no archive holds
DecompiledClasses == {ClassFoo, ClassAbsent}

\* the longest batch, in class names
MaxBatch == 2

Batches == UNION {[1..n -> DecompiledClasses] : n \in 0..MaxBatch}

\* in a batch a call decompiles, or CFR fails
BatchEnvironments == [cfrJar : {CfrJar}, fault : {"none", "cfrFailed"}]

\* the caches an earlier process can have left
Caches ==
    {noFiles} \cup {(ClassFoo :> sourceOf(ClassFoo, jarPath)) : jarPath \in {JarA, JarB}}

\* the service and the directories now
service == serviceOf(cfrPath, cacheFiles, tempFiles)

\* the call ends: the service and the directories are as it leaves them
Ends(end, call) ==
    /\ cfrPath' = end.cfrPath
    /\ cacheFiles' = end.cacheFiles
    /\ tempFiles' = end.tempFiles
    /\ events' = end.events
    /\ returned' = call @@ (IF end.status = "threw"
                            THEN threw(end.message)
                            ELSE [status |-> "returned", value |-> end.value])

\* decompileClass(className, projectPath, useCache, cfrPath) is called
DecompileClass ==
    /\ \E name \in DecompiledClasses, useCache \in BOOLEAN,
          cfrArg \in {<<>>, OtherCfrJar}, env \in DecompileEnvironments :
        Ends(decompileClass(indexFile, service, name, useCache, cfrArg, env),
             [call |-> "decompileClass", className |-> name,
              useCache |-> useCache, cfrPath |-> cfrArg])
    /\ UNCHANGED <<parserVars, indexFile, frames>>

\* decompileClasses(classNames, projectPath, useCache) is called
DecompileClasses ==
    /\ \E classNames \in Batches, useCache \in BOOLEAN :
        \E envs \in [1..Len(classNames) -> BatchEnvironments] :
            Ends(decompileClasses(indexFile, service, classNames, useCache, <<>>, envs),
                 [call |-> "decompileClasses", classNames |-> classNames,
                  useCache |-> useCache])
    /\ UNCHANGED <<parserVars, indexFile, frames>>

InitDecompiler ==
    /\ parserIdle
    /\ indexFile \in IndexFiles \cup {noIndexFile}
    /\ cacheFiles \in Caches
    /\ tempFiles = {}
    /\ cfrPath = <<>>
    /\ frames = <<>>
    /\ events = <<>>
    /\ returned = nothing

NextDecompiler == DecompileClass \/ DecompileClasses

SpecDecompiler == InitDecompiler /\ [][NextDecompiler]_vars

\* ---- the calls of one service after another ----

\* new DecompilerService(): this.cfrPath = ''; the directories stay
NewDecompilerService ==
    /\ cfrPath # <<>>
    /\ cfrPath' = <<>>
    /\ UNCHANGED <<parserVars, fileVars, frames, events, returned>>

NextSessions == DecompileClass \/ NewDecompilerService

SpecSessions == InitDecompiler /\ [][NextSessions]_vars

\* ------------------------------------------------------------------------
\* DependencyScanner: scans and lookups of one project
\* ------------------------------------------------------------------------

\* the simple name of a class that the archives hold in a package
SimpleShape == <<"S","h","a","p","e">>

\* the class names looked up: in both archives, in one, a nested class, in
\* a package, by simple name only, in none
LookedUp ==
    {ClassFoo, ClassBar, ClassBase, ClassQux, ClassInner, ClassShape,
     SimpleShape, ClassAbsent}

\* how a call of the scanner ends
outcomeOf(end) ==
    IF end.status = "threw"
    THEN threw(end.message)
    ELSE [status |-> "returned", value |-> end.value]

\* scanProject(projectPath, forceRefresh) is called, in one of the
\* environments
ScanProjectIn(environments) ==
    /\ \E forceRefresh \in BOOLEAN, env \in environments :
        LET end == scanProject(indexFile, forceRefresh, env)
        IN  /\ indexFile' = end.indexFile
            /\ events' = end.events
            /\ returned' = [call |-> "scanProject", forceRefresh |-> forceRefresh]
                           @@ (IF end.status = "threw"
                               THEN threw(end.message)
                               ELSE [status |-> "returned", value |-> end.result])
    /\ UNCHANGED <<parserVars, cacheFiles, tempFiles, cfrPath, frames>>

ScanProject == ScanProjectIn(ScanEnvironments)

\* findJarForClass(className, projectPath) is called
FindJarForClass ==
    /\ \E name \in LookedUp :
        returned' = [call |-> "findJarForClass", className |-> name]
                    @@ outcomeOf(findJarForClass(indexFile, name))
    /\ events' = <<>>
    /\ UNCHANGED <<parserVars, fileVars, cfrPath, frames>>

\* getAllClassNames(projectPath) is called
GetAllClassNames ==
    /\ returned' = [call |-> "getAllClassNames", status |-> "returned",
                    value |-> getAllClassNames(indexFile)]
    /\ events' = <<>>
    /\ UNCHANGED <<parserVars, fileVars, cfrPath, frames>>

\* a project that was never scanned
InitScanner ==
    /\ parserIdle
    /\ indexFile = noIndexFile
    /\ cacheFiles = noFiles
    /\ tempFiles = {}
    /\ cfrPath = <<>>
    /\ frames = <<>>
    /\ events = <<>>
    /\ returned = nothing

NextScanner == ScanProject \/ FindJarForClass \/ GetAllClassNames

SpecScanner == InitScanner /\ [][NextScanner]_vars

\* ---- scans of a project that depends on a large archive ----

\* the dependency tree names the large archive, alone or with another, and
\* either can be unreadable
WideScanEnvironments ==
    [mvn : {succeeded(jarPaths) :
               jarPaths \in {<<JarWide>>, <<JarA, JarWide>>, <<JarWide, JarA>>,
                              <<JarB, JarWide>>, <<JarWide, JarB>>}},
     repositoryExists : {TRUE},
     unreadable : SUBSET {JarA, JarB, JarWide}]

NextWideScan ==
    ScanProjectIn(WideScanEnvironments) \/ FindJarForClass \/ GetAllClassNames

SpecWideScan == InitScanner /\ [][NextWideScan]_vars

\* ------------------------------------------------------------------------
\* index.ts: the request handler of the server and its tool handlers
\* ------------------------------------------------------------------------

ToolScan == <<"s","c","a","n","_","d","e","p","e","n","d","e","n","c","i","e","s">>

ToolDecompile == <<"d","e","c","o","m","p","i","l","e","_","c","l","a","s","s">>

ToolAnalyze == <<"a","n","a","l","y","z","e","_","c","l","a","s","s">>

\* a tool name the switch does not know
ToolOther == <<"l","i","s","t","_","c","l","a","s","s","e","s">>

nl == <<"\n">>

\* the texts of the responses, in English for '依赖扫描完成！',
\* '扫描的JAR包数量: ', '索引的类数量: ', '示例索引条目:', '警告: 类 ',
\* ' 的反编译结果为空...', '类 ', ' 的反编译源码:', '反编译失败: ',
\* '建议: ...', '工具调用失败: ', '无法创建类索引文件: ', ' 的分析结果:',
\* '包名: ', '类名: ', '修饰符: ', '父类: ', '无', '实现的接口: ', '方法 (',
\* '个):'; the index path line of the scan response is left out
sScanDone == <<"s","c","a","n"," ","c","o","m","p","l","e","t","e">>

sJarCount == <<"J","A","R","s"," ","s","c","a","n","n","e","d",":"," ">>

sClassCount == <<"c","l","a","s","s","e","s"," ","i","n","d","e","x","e","d",":"," ">>

sSamples == <<"s","a","m","p","l","e"," ","e","n","t","r","i","e","s",":">>

sWarningBefore == <<"w","a","r","n","i","n","g",":"," ","c","l","a","s","s"," ">>

sWarningAfter == <<" ","d","e","c","o","m","p","i","l","e","d"," ","t","o"," ","n","o","t","h","i","n","g">>

sClass == <<"c","l","a","s","s"," ">>

sSourceAfter == <<" ","d","e","c","o","m","p","i","l","e","d"," ","s","o","u","r","c","e",":">>

sDecompileFailed == <<"d","e","c","o","m","p","i","l","e"," ","f","a","i","l","e","d",":"," ">>

sAdvice == <<"a","d","v","i","c","e",":"," ",".",".",".">>

sToolFailed == <<"t","o","o","l"," ","c","a","l","l"," ","f","a","i","l","e","d",":"," ">>

sCannotCreateIndex == <<"c","a","n","n","o","t"," ","c","r","e","a","t","e"," ","c","l","a","s","s"," ","i","n","d","e","x",":"," ">>

sUnknownTool == <<"U","n","k","n","o","w","n"," ","t","o","o","l",":"," ">>

sCannotDestructure == <<"C","a","n","n","o","t"," ","d","e","s","t","r","u","c","t","u","r","e"," ","p","r","o","p","e","r","t","y"," ","o","f"," ","u","n","d","e","f","i","n","e","d">>

sAnalysisAfter == <<" ","a","n","a","l","y","s","i","s",":">>

sPackage == <<"p","a","c","k","a","g","e",":"," ">>

sName == <<"n","a","m","e",":"," ">>

sModifiers == <<"m","o","d","i","f","i","e","r","s",":"," ">>

sSuperClass == <<"s","u","p","e","r","c","l","a","s","s",":"," ">>

sNone == <<"n","o","n","e">>

sInterfaces == <<"i","n","t","e","r","f","a","c","e","s",":"," ">>

sMethodsBefore == <<"m","e","t","h","o","d","s"," ","(">>

sMethodsAfter == <<")",":">>

\* the fence of three backquotes around the source, written with quotes
sFence == <<"'","'","'">>

\* { content: [{ type: 'text', text }] }
textContent(text) ==
    [status |-> "returned", value |-> [content |-> <<[type |-> "text", text |-> text]>>]]

\* sampleEntries.slice(0, 5)
ShownSamples == 5

\* an ensureIndexExists that relies on the index file being there
assumeIndexExists(project, env) ==
    [status |-> "returned", indexFile |-> project, events |-> <<>>]

\* ensureIndexExists: scanProject(projectPath, false) when the project has
\* no index file
ensureIndexExists(project, env) ==
    IF project.exists
    THEN [status |-> "returned", indexFile |-> project, events |-> <<>>]
    ELSE LET scan == scanProject(project, FALSE, env)
             steps == <<[call |-> "scanProject", forceRefresh |-> FALSE]>>
                      \o scan.events
         IN  IF scan.status = "threw"
             THEN [status |-> "threw",
                   message |-> sCannotCreateIndex \o scan.message,
                   indexFile |-> scan.indexFile, events |-> steps]
             ELSE [status |-> "returned", indexFile |-> scan.indexFile,
                   events |-> steps]

\* what a handler leaves: its response or error, the errors raised on the
\* way, the files, the service and what it did
handled(outcome, raised, project, after, steps) ==
    outcome @@ [raised |-> raised, indexFile |-> project,
                cfrPath |-> after.cfrPath, cacheFiles |-> after.cacheFiles,
                tempFiles |-> after.tempFiles, events |-> steps]

\* handleScanDependencies
handleScanDependencies(project, now, forceRefresh, env) ==
    LET scan == scanProject(project, forceRefresh, env)
        steps == <<[call |-> "scanProject", forceRefresh |-> forceRefresh]>>
                 \o scan.events
        samples == SubSeq(scan.result.sampleEntries, 1,
                          MinOf({ShownSamples, Len(scan.result.sampleEntries)}))
    IN  IF scan.status = "threw"
        THEN handled(threw(scan.message), <<scan.message>>, scan.indexFile, now,
                     steps)
        ELSE handled(textContent(sScanDone \o nl \o nl
                                 \o sJarCount \o numberToString(scan.result.jarCount) \o nl
                                 \o sClassCount \o numberToString(scan.result.classCount) \o nl
                                 \o nl \o sSamples \o nl \o join(samples, nl)),
                     <<>>, scan.indexFile, now, steps)

\* the response of the catch of handleDecompileClass
decompileFailed(message) ==
    textContent(sDecompileFailed \o message \o nl \o nl \o sAdvice)

\* handleDecompileClass, from the end of its call of ensureIndexExists
handleDecompileClass(ensured, now, name, useCache, cfrArg, env) ==
    LET end == decompileClass(ensured.indexFile, now, name, useCache, cfrArg, env)
        steps == ensured.events \o end.events
    IN  IF ensured.status = "threw"
        THEN handled(decompileFailed(ensured.message), <<ensured.message>>,
                     ensured.indexFile, now, ensured.events)
        ELSE IF end.status = "threw"
        THEN handled(decompileFailed(end.message), <<end.message>>,
                     ensured.indexFile, end, steps)
        ELSE IF trim(end.value) = <<>>
        THEN handled(textContent(sWarningBefore \o name \o sWarningAfter), <<>>,
                     ensured.indexFile, end, steps)
        ELSE handled(textContent(sClass \o name \o sSourceAfter \o nl \o nl
                                 \o sFence \o <<"j","a","v","a">> \o nl \o end.value \o nl
                                 \o sFence),
                     <<>>, ensured.indexFile, end, steps)

\* one line of the list of methods
methodLine(method) ==
    <<" "," ","-"," ">> \o join(method.modifiers, <<" ">>) \o <<" ">> \o method.returnType
    \o <<" ">> \o method.name \o <<"(">> \o join(method.parameters, <<","," ">>)
    \o <<")">> \o nl

RECURSIVE methodLines(_)
methodLines(methods) ==
    IF methods = <<>> THEN <<>>
    ELSE methodLine(Head(methods)) \o methodLines(Tail(methods))

\* the text handleAnalyzeClass builds from the analysis (the analysis never
\* has fields)
analysisText(name, result) ==
    sClass \o name \o sAnalysisAfter \o nl \o nl
    \o sPackage \o result.packageName \o nl
    \o sName \o result.className \o nl
    \o sModifiers \o join(result.modifiers, <<" ">>) \o nl
    \o sSuperClass
    \o (IF result.superClass = undefined \/ result.superClass = <<>>
        THEN sNone ELSE result.superClass) \o nl
    \o sInterfaces
    \o (IF join(result.interfaces, <<","," ">>) = <<>>
        THEN sNone ELSE join(result.interfaces, <<","," ">>)) \o nl \o nl
    \o (IF Len(result.methods) > 0
        THEN sMethodsBefore \o numberToString(Len(result.methods)) \o sMethodsAfter
             \o nl \o methodLines(result.methods) \o nl
        ELSE <<>>)

\* a request handler whose errors reach the caller
rethrown(outcome) == outcome

\* the catch of the request handler: the error becomes a response
caught(outcome) ==
    IF outcome.status = "threw"
    THEN textContent(sToolFailed \o outcome.message \o nl \o nl \o sAdvice)
    ELSE outcome

\* the request handler returns
Responds(tool, end) ==
    /\ indexFile' = end.indexFile
    /\ cfrPath' = end.cfrPath
    /\ cacheFiles' = end.cacheFiles
    /\ tempFiles' = end.tempFiles
    /\ returned' = [call |-> "CallTool", tool |-> tool, raised |-> end.raised]
                   @@ caught(IF end.status = "threw"
                             THEN threw(end.message)
                             ELSE [status |-> "returned", value |-> end.value])

\* the arguments of a request that has none
noArguments == [undefined |-> TRUE]

\* the request that starts a handler
request(tool, arguments) ==
    [call |-> "CallTool", tool |-> tool, arguments |-> arguments]

\* what the scans behind the server meet: both archives or one as the
\* dependencies, or mvn failing; an archive that cannot be read
ServerScanEnvironments ==
    [mvn : {succeeded(<<JarA, JarB>>), succeeded(<<JarB>>), failed(sCommandFailed)},
     repositoryExists : BOOLEAN,
     unreadable : {{}, {JarA}}]

\* the environments of a scan that the handler may have to run
scansFor(project) ==
    IF project.exists THEN {CHOOSE env \in ServerScanEnvironments : TRUE}
    ELSE ServerScanEnvironments

\* the environments of the decompiler behind the server
RequestEnvironments == [cfrJar : {<<>>, CfrJar}, fault : {"none", "cfrFailed"}]

\* the classes the requests name
RequestedClasses == {ClassFoo, ClassAbsent}

\* a request with a tool name the switch does not know
UnknownToolRequest ==
    /\ frames = <<>>
    /\ Responds(ToolOther,
                handled(threw(sUnknownTool \o ToolOther),
                        <<sUnknownTool \o ToolOther>>, indexFile, service, <<>>))
    /\ events' = <<request(ToolOther, noArguments)>>
    /\ UNCHANGED <<parserVars, frames>>

\* a request without arguments: the handler fails when it takes them apart
NoArgumentsRequest ==
    /\ frames = <<>>
    /\ \E tool \in {ToolScan, ToolDecompile, ToolAnalyze} :
        /\ Responds(tool, handled(threw(sCannotDestructure), <<sCannotDestructure>>,
                                  indexFile, service, <<>>))
        /\ events' = <<request(tool, noArguments)>>
    /\ UNCHANGED <<parserVars, frames>>

\* a scan_dependencies request
ScanDependenciesRequest ==
    /\ frames = <<>>
    /\ \E forceRefresh \in BOOLEAN, env \in ServerScanEnvironments :
        \E end \in {handleScanDependencies(indexFile, service, forceRefresh, env)} :
            /\ Responds(ToolScan, end)
            /\ events' = <<request(ToolScan, [forceRefresh |-> forceRefresh])>>
                         \o end.events
    /\ UNCHANGED <<parserVars, frames>>

\* a decompile_class request
DecompileClassRequest ==
    /\ frames = <<>>
    /\ \E name \in RequestedClasses, useCache \in BOOLEAN,
          cfrArg \in {<<>>, OtherCfrJar}, scanEnv \in scansFor(indexFile),
          env \in RequestEnvironments :
        \E ensured \in {ensureIndexExists(indexFile, scanEnv)} :
            \E end \in {handleDecompileClass(ensured, service, name, useCache,
                                              cfrArg, env)} :
                /\ Responds(ToolDecompile, end)
                /\ events' = <<request(ToolDecompile,
                                       [className |-> name, useCache |-> useCache,
                                        cfrPath |-> cfrArg])>>
                             \o end.events
    /\ UNCHANGED <<parserVars, frames>>

\* an analyze_class request whose handler fails before the text of javap is
\* parsed
AnalyzeClassFails ==
    /\ frames = <<>>
    /\ \E name \in RequestedClasses, scanEnv \in scansFor(indexFile) :
        \E ensured \in {ensureIndexExists(indexFile, scanEnv)} :
            \E javap \in javapOutcomes(name) :
                \E text \in {analyzeClass(ensured.indexFile, name, javap)} :
                    /\ ensured.status = "threw" \/ text.status = "threw"
                    /\ IF ensured.status = "threw"
                       THEN /\ Responds(ToolAnalyze,
                                        handled(threw(ensured.message),
                                                <<ensured.message>>,
                                                ensured.indexFile, service, <<>>))
                            /\ events' = <<request(ToolAnalyze, [className |-> name])>>
                                         \o ensured.events
                       ELSE /\ Responds(ToolAnalyze,
                                        handled(threw(text.message), <<text.message>>,
                                                ensured.indexFile, service, <<>>))
                            /\ events' = <<request(ToolAnalyze, [className |-> name])>>
                                         \o ensured.events
                                         \o <<did("findJarForClass", name)>>
    /\ UNCHANGED <<parserVars, frames>>

\* an analyze_class request whose handler reaches the parser
AnalyzeClassDisassembled ==
    /\ frames = <<>>
    /\ \E name \in RequestedClasses, scanEnv \in scansFor(indexFile) :
        \E ensured \in {ensureIndexExists(indexFile, scanEnv)} :
            \E javap \in javapOutcomes(name) :
                \E text \in {analyzeClass(ensured.indexFile, name, javap)} :
                    /\ ensured.status = "returned"
                    /\ text.status = "stdout"
                    /\ indexFile' = ensured.indexFile
                    /\ frames' = <<[fn |-> "handleAnalyzeClass", at |-> "parsing",
                                    className |-> name, stdout |-> text.stdout]>>
                    /\ events' = <<request(ToolAnalyze, [className |-> name])>>
                                 \o ensured.events
                                 \o <<did("findJarForClass", name)>>
                    /\ parseJavapOutput(name)
    /\ UNCHANGED <<cacheFiles, tempFiles, cfrPath, returned>>

\* the analysis is back: handleAnalyzeClass returns its text
AnalyzeClassResponds ==
    /\ frames # <<>>
    /\ top.fn = "handleAnalyzeClass"
    /\ pc = "done"
    /\ Responds(ToolAnalyze,
                handled(textContent(analysisText(top.className, analysis)), <<>>,
                        indexFile, service, <<>>))
    /\ frames' = <<>>
    /\ UNCHANGED <<parserVars, events>>

\* a server started on a project that was never scanned
InitServer ==
    /\ parserIdle
    /\ indexFile = noIndexFile
    /\ cacheFiles \in Caches
    /\ tempFiles = {}
    /\ cfrPath = <<>>
    /\ frames = <<>>
    /\ events = <<>>
    /\ returned = nothing

NextServer ==
    \/ UnknownToolRequest
    \/ NoArgumentsRequest
    \/ ScanDependenciesRequest
    \/ DecompileClassRequest
    \/ AnalyzeClassFails
    \/ AnalyzeClassDisassembled
    \/ AnalyzeClassResponds
    \/ StdoutDeclarationLine
    \/ StdoutSignatureLine
    \/ StdoutOtherLine
    \/ StdoutReturn

SpecServer == InitServer /\ [][NextServer]_vars

\* ------------------------------------------------------------------------
\* parseJavapOutput called again and again by one caller
\* ------------------------------------------------------------------------

\* the calls of one run
MaxCalls == 3

\* the texts the caller has: the output of javap for Foo, for Bar, and an
\* empty output
CallTexts == {disassemblyOf(ClassFoo), disassemblyOf(ClassBar), <<LineBlank>>}

\* the class identifiers the caller passes
CallNames == {ClassFoo, ClassShape}

\* the object literal of the parser: a new object, at a new place of the
\* heap
newObject(heap) == Len(heap) + 1

\* the caller between two calls, with the objects it was given so far
callerFrame(heap) == [fn |-> "caller", at |-> "idle", heap |-> heap]

\* parseJavapOutput(output, className) is called
ParseCall ==
    /\ frames # <<>>
    /\ top.fn = "caller"
    /\ top.at = "idle"
    /\ Len(events) < MaxCalls
    /\ \E output \in CallTexts, name \in CallNames :
        /\ frames' = withTop([fn |-> "caller", at |-> "parsing", heap |-> top.heap,
                              stdout |-> output, className |-> name])
        /\ parseJavapOutput(name)
    /\ UNCHANGED <<fileVars, cfrPath, events, returned>>

\* the call returns its object to the caller, which keeps it
ParseReturns ==
    /\ frames # <<>>
    /\ top.fn = "caller"
    /\ top.at = "parsing"
    /\ pc = "done"
    /\ LET object == newObject(top.heap)
       IN  /\ frames' = withTop(callerFrame(
                  [o \in 1..MaxOf({object, Len(top.heap)}) |->
                      IF o = object THEN analysis ELSE top.heap[o]]))
           /\ events' = Append(events,
                  [call |-> "parseJavapOutput", output |-> top.stdout,
                   className |-> top.className, result |-> analysis,
                   object |-> object, changed |-> FALSE])
           /\ returned' = [status |-> "returned", call |-> "parseJavapOutput",
                           value |-> analysis]
    /\ UNCHANGED <<parserVars, fileVars, cfrPath>>

\* the caller changes a description it was given: it empties the list of
\* methods and renames the class
OwnerChanges ==
    /\ frames # <<>>
    /\ top.fn = "caller"
    /\ top.at = "idle"
    /\ \E k \in 1..Len(events) :
        /\ ~events[k].changed
        /\ frames' = withTop(callerFrame(
               [top.heap EXCEPT ![events[k].object] =
                   [@ EXCEPT !.methods = <<>>, !.className = <<>>]]))
        /\ events' = [events EXCEPT ![k].changed = TRUE]
    /\ UNCHANGED <<parserVars, fileVars, cfrPath, returned>>

InitCalls ==
    /\ parserIdle
    /\ indexFile = noIndexFile
    /\ cacheFiles = noFiles
    /\ tempFiles = {}
    /\ cfrPath = <<>>
    /\ frames = <<callerFrame(<<>>)>>
    /\ events = <<>>
    /\ returned = nothing

NextCalls ==
    \/ ParseCall
    \/ StdoutDeclarationLine
    \/ StdoutSignatureLine
    \/ StdoutOtherLine
    \/ StdoutReturn
    \/ ParseReturns
    \/ OwnerChanges

SpecCalls == InitCalls /\ [][NextCalls]_vars

\* ---- calls of decompileClass in progress at the same time ----

\* the request handler awaits each call, and the event loop runs the handler
\* of the next request while a call waits for the file system or for a
\* process: frames holds the calls in progress, in the order of their start

\* the most calls in progress at once
MaxConcurrent == 2

\* what CFR does with a class file that is missing or not yet written out:
\* it fails, or prints nothing
missingFileOutcomes == {failed(sCommandFailed), succeeded(<<>>)}

\* the locals of a call of decompileClass before its first await
decompileFrame(name, useCache, env) ==
    [fn |-> "decompileClass", at |-> "start", className |-> name,
     useCache |-> useCache, env |-> env, jarPath |-> <<>>,
     extracted |-> FALSE, result |-> nothing]

\* the call at position i of frames goes on as frame
withFrame(i, frame) == [frames EXCEPT ![i] = frame]

\* the call ends with the outcome
finished(frame, outcome) == [frame EXCEPT !.at = "done", !.result = outcome]

\* decompileClass(className, projectPath, useCache) is called while at most
\* one other call is in progress
ConcurrentCall ==
    /\ Len(frames) < MaxConcurrent
    /\ \E useCache \in BOOLEAN, env \in BatchEnvironments :
        frames' = Append(frames, decompileFrame(ClassFoo, useCache, env))
    /\ UNCHANGED <<parserVars, fileVars, cfrPath, events, returned>>

\* the tool path and the cache test of a call
ConcurrentBegin ==
    \E i \in 1..Len(frames) :
    LET frame == frames[i]
        path == IF cfrPath # <<>> THEN cfrPath ELSE frame.env.cfrJar
    IN  /\ frame.at = "start"
        /\ cfrPath' = path
        /\ IF readsCache(frame.useCache, cacheFiles, frame.className)
           THEN frames' = withFrame(i, finished(frame,
                              [status |-> "returned",
                               value |-> cacheFiles[frame.className]]))
           ELSE frames' = withFrame(i, [frame EXCEPT !.at = "lookup"])
        /\ UNCHANGED <<parserVars, fileVars, events, returned>>

\* the lookup of the archive of a call
ConcurrentLookup ==
    \E i \in 1..Len(frames) :
    LET frame == frames[i]
        jar == findJarForClass(indexFile, frame.className)
    IN  /\ frame.at = "lookup"
        /\ frames' = withFrame(i,
               IF jar.status = "threw"
               THEN finished(frame, jar)
               ELSE IF jar.value = null
               THEN finished(frame, threw(sNoJarBefore \o frame.className \o sRunScan))
               ELSE [frame EXCEPT !.at = "extract", !.jarPath = jar.value.jarPath])
        /\ UNCHANGED <<parserVars, fileVars, cfrPath, events, returned>>

\* extractClassFile of a call opens the entry of the archive and creates the
\* write stream: the class file is there again, empty
ConcurrentExtractOpens ==
    \E i \in 1..Len(frames) :
    LET frame == frames[i]
        file == extractClassFile(frame.jarPath, frame.className, frame.env)
    IN  /\ frame.at = "extract"
        /\ IF file.status = "threw"
           THEN /\ frames' = withFrame(i, finished(frame, file))
                /\ UNCHANGED tempFiles
           ELSE /\ frames' = withFrame(i, [frame EXCEPT !.at = "writing"])
                /\ tempFiles' = tempFiles \ {frame.className}
        /\ UNCHANGED <<parserVars, indexFile, cacheFiles, cfrPath, events,
                       returned>>

\* the write stream of a call closes: the class file is whole
ConcurrentExtractCloses ==
    \E i \in 1..Len(frames) :
    LET frame == frames[i]
    IN  /\ frame.at = "writing"
        /\ frames' = withFrame(i, [frame EXCEPT !.at = "cfr", !.extracted = TRUE])
        /\ tempFiles' = tempFiles \cup {frame.className}
        /\ UNCHANGED <<parserVars, indexFile, cacheFiles, cfrPath, events,
                       returned>>

\* decompileWithCfr of a call: CFR reads the class file that is there now
ConcurrentCfr ==
    \E i \in 1..Len(frames) :
    LET frame == frames[i]
    IN  /\ frame.at = "cfr"
        /\ \E process \in IF frame.className \in tempFiles
                          THEN {cfrOutcome(frame.env, frame.className, frame.jarPath)}
                          ELSE missingFileOutcomes :
            LET source == decompileWithCfr(cfrPath, process)
            IN  frames' = withFrame(i,
                    IF source.status = "threw"
                    THEN finished(frame, source)
                    ELSE [frame EXCEPT !.at = "store", !.result = source])
        /\ UNCHANGED <<parserVars, fileVars, cfrPath, events, returned>>

\* the end of a call that decompiled: the cache is written, or the class
\* file is removed
ConcurrentStore ==
    \E i \in 1..Len(frames) :
    LET frame == frames[i]
    IN  /\ frame.at = "store"
        /\ frames' = withFrame(i, [frame EXCEPT !.at = "done"])
        /\ IF frame.useCache
           THEN /\ cacheFiles' =
                       (frame.className :> frame.result.value) @@ cacheFiles
                /\ UNCHANGED tempFiles
           ELSE /\ tempFiles' = tempFiles \ {frame.className}
                /\ UNCHANGED cacheFiles
        /\ UNCHANGED <<parserVars, indexFile, cfrPath, events, returned>>

InitConcurrent ==
    /\ parserIdle
    /\ indexFile \in IndexFiles \cup {noIndexFile}
    /\ cacheFiles = noFiles
    /\ tempFiles = {}
    /\ cfrPath = <<>>
    /\ frames = <<>>
    /\ events = <<>>
    /\ returned = nothing

NextConcurrent ==
    \/ ConcurrentCall
    \/ ConcurrentBegin
    \/ ConcurrentLookup
    \/ ConcurrentExtractOpens
    \/ ConcurrentExtractCloses
    \/ ConcurrentCfr
    \/ ConcurrentStore

SpecConcurrent == InitConcurrent /\ [][NextConcurrent]_vars

\* ------------------------------------------------------------------------
\* Properties of the traversals
\* ------------------------------------------------------------------------

\* the call of this traversal has ended
ended(fn) == returned # nothing /\ returned.call = fn

\* the class names of the calls of analyzeClass, in call order
analyzedNames == [j \in 1..Len(events) |-> events[j].className]

\* the call of analyzeClass returned an analysis with this superclass
analyzedAs(event, superClass) == ~event.failed /\ event.superClass = superClass

\* C11: in findSubClasses a class whose lookup, disassembly or parse fails
\* does not end the search: every class name of the index is still
\* analyzed, the call returns normally, and every class that could be
\* analyzed and has the target as its superclass is in the result
C11_FailureIsolated ==
    ended("findSubClasses") =>
        /\ returned.status = "returned"
        /\ \A k \in 1..Len(getAllClassNames(indexFile)) :
            \E j \in 1..Len(events) : events[j].className = getAllClassNames(indexFile)[k]
        /\ \A j \in 1..Len(events) :
            analyzedAs(events[j], returned.className) =>
                \E k \in 1..Len(returned.value) :
                    returned.value[k] = events[j].className

\* a search returns a subclass analyzed after a class that failed
C11_Witness ==
    /\ ended("findSubClasses")
    /\ \E i \in 1..Len(events), j \in 1..Len(events) :
        /\ i < j
        /\ events[i].failed
        /\ analyzedAs(events[j], returned.className)
        /\ returned.value = <<events[j].className>>

\* C12: findSubClasses analyzes the class names of getAllClassNames, each
\* entry once and in order, and returns exactly the entries whose analysis
\* succeeded with a superclass equal to the target, once per entry
C12_SubClassesExact ==
    ended("findSubClasses") =>
        /\ analyzedNames = getAllClassNames(indexFile)
        /\ LET kept == SelectSeq(events,
                        LAMBDA event : analyzedAs(event, returned.className))
           IN  returned.value = [k \in 1..Len(kept) |-> kept[k].className]

\* a search over an index that lists a subclass twice, another subclass,
\* and classes with another superclass or none
C12_Witness ==
    /\ ended("findSubClasses")
    /\ returned.className = ClassBar
    /\ returned.value = <<ClassFoo, ClassFoo, ClassQux>>
    /\ \E j \in 1..Len(events) : analyzedAs(events[j], ClassBase)
    /\ \E j \in 1..Len(events) : analyzedAs(events[j], undefined)

\* C13: getInheritanceHierarchy(C) with C analyzable returns a sequence that
\* ends with C in which each element is the superclass found by the
\* analysis of the next one; the first element is a class without a
\* superclass or an ancestor that could not be analyzed, recorded once; the
\* call fails only when C itself cannot be analyzed
C13_HierarchyChain ==
    ended("getInheritanceHierarchy") =>
        IF returned.status = "threw"
        THEN events = <<analyzed(returned.className, TRUE, undefined)>>
        ELSE LET hierarchy == returned.value
                 n == Len(hierarchy)
             IN  /\ n = Len(events)
                 /\ n >= 1
                 /\ hierarchy[n] = returned.className
                 /\ \A j \in 1..n :
                     /\ events[j].className = hierarchy[n - j + 1]
                     /\ j < n => analyzedAs(events[j], hierarchy[n - j])
                     /\ j = n => events[j].failed \/ analyzedAs(events[j], undefined)
                     /\ events[j].failed => j = n /\ n > 1

\* Foo, its superclass Bar, and Base, which could not be analyzed
C13_Witness ==
    /\ ended("getInheritanceHierarchy")
    /\ returned.status = "returned"
    /\ returned.value = <<ClassBase, ClassBar, ClassFoo>>
    /\ events[3].failed

\* ------------------------------------------------------------------------
\* Properties of the decompiler
\* ------------------------------------------------------------------------

\* the steps of a call that go past the cache
pastCache == {"findJarForClass", "extractClassFile", "decompileWithCfr", "writeCache"}

\* the step is a call of decompileClass with useCache true for a class that
\* has a cache entry
cacheHit ==
    /\ returned'.call = "decompileClass"
    /\ returned'.useCache
    /\ returned'.className \in DOMAIN cacheFiles

\* C14: a call of decompileClass with useCache true for a class that has a
\* cache entry returns the cached text, and in that call there is no JAR
\* lookup, no extraction of the class file, no run of the decompiler and no
\* write to the cache
C14_CacheHitShortCircuits ==
    [][cacheHit =>
        /\ returned'.status = "returned"
        /\ returned'.value = cacheFiles[returned'.className]
        /\ \A k \in 1..Len(events') : events'[k].call \notin pastCache
        /\ cacheFiles' = cacheFiles]_vars

\* the calls of decompileClass a batch made, in order
batchCalls == SelectSeq(events, LAMBDA event : event.call = "decompileClass")

\* the last call of the batch for a class name
lastCallFor(name) ==
    batchCalls[MaxOf({k \in 1..Len(batchCalls) : batchCalls[k].className = name})]

\* C15: decompileClasses returns a map with an entry for every class name
\* of its input; a class whose decompilation fails has the placeholder
\* text as its entry, the class names after it are still decompiled, and
\* the call itself returns
C15_BatchIsolated ==
    ended("decompileClasses") =>
        /\ returned.status = "returned"
        /\ [k \in 1..Len(batchCalls) |-> batchCalls[k].className] = returned.classNames
        /\ DOMAIN returned.value =
            {returned.classNames[k] : k \in 1..Len(returned.classNames)}
        /\ \A name \in DOMAIN returned.value :
            lastCallFor(name).failed <=> startsWith(returned.value[name], sPlaceholder)

\* a batch whose first class fails and whose second class is decompiled
C15_Witness ==
    /\ ended("decompileClasses")
    /\ returned.classNames = <<ClassAbsent, ClassFoo>>
    /\ startsWith(returned.value[ClassAbsent], sPlaceholder)
    /\ returned.value[ClassFoo] = sourceOf(ClassFoo, JarB)
    /\ \E k \in 1..Len(events) : events[k] = did("decompileWithCfr", ClassFoo)

\* C18: when the mvn command fails, the scan fails with an error that
\* carries the message of the underlying failure (no fallback result is
\* substituted for the dependency list)
C18_MvnFailureSurfaces ==
    ended("scanProject")
    => \A k \in 1..Len(events) :
          (events[k].call = "mvn" /\ events[k].failed)
          => /\ returned.status = "threw"
             /\ contains(returned.message, events[k].message)

\* the file names of an archive
fileNames(jarPath) == {entriesOf(jarPath)[k] : k \in 1..Len(entriesOf(jarPath))}

\* the file name of a class in an archive
classFileOf(name) == replaceAll(name, ".", "/") \o sDotClass

\* the position of the first entry of the index with the class name
firstEntry(name) ==
    MinOf({k \in 1..Len(indexFile.classIndex) :
              indexFile.classIndex[k].className = name})

\* C19: after a successful scan, every class recorded from an archive that
\* was read is found by findJarForClass in an archive that contains it, the
\* first in the order of the index when several do; a class name that is
\* not in the index is answered with null
C19_LookupAfterScan ==
    /\ (ended("scanProject") /\ returned.status = "returned")
       => /\ indexFile.exists
          /\ \A k \in 1..Len(events) :
                (events[k].call = "extractClassesFromJar" /\ ~events[k].failed)
                => \A fileName \in fileNames(events[k].jarPath) :
                      isIndexedEntry(fileName)
                      => LET name == classIndexEntry(fileName, events[k].jarPath).className
                             jar == findJarForClass(indexFile, name)
                         IN  /\ jar.status = "returned"
                             /\ jar.value # null
                             /\ classFileOf(name) \in fileNames(jar.value.jarPath)
                             /\ jar.value.jarPath = indexFile.classIndex[firstEntry(name)].jarPath
    /\ (ended("findJarForClass") /\ indexFile.exists)
       => /\ returned.status = "returned"
          /\ IF \E k \in 1..Len(indexFile.classIndex) :
                    indexFile.classIndex[k].className = returned.className
             THEN /\ returned.value # null
                  /\ returned.value.jarPath =
                         indexFile.classIndex[firstEntry(returned.className)].jarPath
                  /\ classFileOf(returned.className) \in fileNames(returned.value.jarPath)
             ELSE returned.value = null

\* a class of two archives is looked up after a scan that read both: the
\* answer is the archive that comes first in the index
C19_Witness ==
    /\ ended("findJarForClass")
    /\ returned.className = ClassFoo
    /\ returned.status = "returned"
    /\ returned.value = [jarPath |-> JarB]
    /\ \E k \in 1..Len(indexFile.classIndex) :
          /\ indexFile.classIndex[k].className = ClassFoo
          /\ indexFile.classIndex[k].jarPath = JarA

\* a step that handles, from its beginning, a request with arguments for
\* one of the tools
handles(tools) ==
    /\ frames = <<>>
    /\ events' # <<>>
    /\ events'[1].call = "CallTool"
    /\ events'[1].tool \in tools
    /\ events'[1].arguments # noArguments

\* the positions of the steps of a handler that call fn
callsOf(steps, fn) == {k \in 1..Len(steps) : steps[k].call = fn}

\* C16: a handler of analyze_class or decompile_class that starts on a
\* project without an index file runs scanProject with forceRefresh false,
\* and does so before any class lookup; a handler that starts on a project
\* with an index file runs no scan
C16_ScanBeforeLookup ==
    [][handles({ToolAnalyze, ToolDecompile})
       => IF ~indexFile.exists
          THEN /\ callsOf(events', "scanProject") # {}
               /\ \A k \in callsOf(events', "scanProject") :
                     ~events'[k].forceRefresh
               /\ \A k \in callsOf(events', "findJarForClass") :
                     \E j \in callsOf(events', "scanProject") : j < k
          ELSE /\ callsOf(events', "scanProject") = {}
               /\ callsOf(events', "mvn") = {}
               /\ indexFile' = indexFile]_vars

\* a decompile_class request on a project without an index file was
\* answered with the source: the handler scanned, then looked the class up
C16_Witness ==
    /\ ended("CallTool")
    /\ returned.tool = ToolDecompile
    /\ returned.raised = <<>>
    /\ Len(events) >= 4
    /\ events[2] = [call |-> "scanProject", forceRefresh |-> FALSE]
    /\ events[3].call = "mvn"
    /\ \E k \in 4..Len(events) : events[k].call = "findJarForClass"

\* the text of a response
textOf(response) == response.content[1].text

\* C17: every tool call ends with a response that is one text content;
\* when a handler or one of its collaborators raised an error, the text
\* carries the message of the error, and the error does not leave the
\* request handler
C17_FailuresBecomeText ==
    ended("CallTool")
    => /\ returned.status = "returned"
       /\ Len(returned.value.content) = 1
       /\ returned.value.content[1].type = "text"
       /\ \A k \in 1..Len(returned.raised) :
             contains(textOf(returned.value), returned.raised[k])

\* an analyze_class request failed in javap and was answered with the
\* message of that failure
C17_Witness ==
    /\ ended("CallTool")
    /\ returned.tool = ToolAnalyze
    /\ returned.status = "returned"
    /\ returned.raised = <<sJavapFailed \o sCommandFailed>>
    /\ contains(textOf(returned.value), sCommandFailed)

\* the calls of the parser that returned
parseCalls == {k \in 1..Len(events) : events[k].call = "parseJavapOutput"}

C21_LookupBeforeCache ==
    ended("decompileClass")
    => \A k \in 1..Len(events) :
          events[k] = did("readCache", returned.className)
          => \E j \in 1..(k - 1) :
                events[j] = did("findJarForClass", returned.className)

\* the steps of a call that touch the cache
cacheSteps == {"readCache", "writeCache"}

\* C22: a call of decompileClass with useCache false neither reads nor
\* writes the cache: the cache directory is as before the call, and when
\* the call returns, its text is what the decompiler printed in this call,
\* whether or not the class has a cache entry
C22_NoCacheWhenDisabled ==
    [][(returned'.call = "decompileClass" /\ ~returned'.useCache)
       => /\ cacheFiles' = cacheFiles
          /\ \A k \in 1..Len(events') : events'[k].call \notin cacheSteps
          /\ returned'.status = "returned"
             => /\ \E k \in 1..Len(events') :
                      events'[k] = did("decompileWithCfr", returned'.className)
                /\ returned'.value =
                      sourceOf(returned'.className,
                               findJarForClass(indexFile, returned'.className).value.jarPath)]_vars

\* a class with a cache entry was decompiled again with useCache false:
\* the text returned is not the cached one, and the entry is still there
C22_Witness ==
    /\ ended("decompileClass")
    /\ ~returned.useCache
    /\ returned.status = "returned"
    /\ returned.className \in DOMAIN cacheFiles
    /\ returned.value # cacheFiles[returned.className]
    /\ \E k \in 1..Len(events) :
          events[k] = did("decompileWithCfr", returned.className)

\* ------------------------------------------------------------------------
\* C23
\* ------------------------------------------------------------------------

\* the step reads one more line of the text
readsLine == Len(lines') = Len(lines) + 1

\* the line that the step reads
lineRead == lines'[Len(lines')]

\* the parameters once the pending names are applied: position j takes the
\* name recorded for slot j - 1 and param<j> when none was recorded
named(parameters, pending) ==
    [j \in 1..Len(parameters) |->
        parameters[j] \o <<" ">> \o
            (IF (j - 1) \in DOMAIN pending
             THEN pending[j - 1]
             ELSE sParam \o numberToString(j))]

\* C23: a step that reads a method signature line while a method is current,
\* its variable table is still open and names are pending for it applies
\* those names to the parameters of that method (param<j> for the positions
\* without a name); the pending names are not dropped.
C23_PendingNamesFlushed ==
    [][(/\ readsLine
        /\ isMethodSignature(trimmed[lineRead])
        /\ inTable
        /\ DOMAIN methodParameters # {})
           => analysis'.methods[currentMethod].parameters =
                  named(analysis.methods[currentMethod].parameters,
                        methodParameters)
      ]_vars

\* ------------------------------------------------------------------------
\* C24
\* ------------------------------------------------------------------------

\* "public ", "protected ", "private "
AccessModifiers == {<<"p","u","b","l","i","c"," ">>, <<"p","r","o","t","e","c","t","e","d"," ">>, <<"p","r","i","v","a","t","e"," ">>}

\* the text begins with an access modifier and has a "(" with a ")" after it
looksLikeSignature(text) ==
    /\ \E modifier \in AccessModifiers : startsWith(text, modifier)
    /\ includes(text, "(")
    /\ indexOf(text, "(", 0) < lastIndexOf(text, ")")

\* C24: a step that reads a line beginning with public, protected or private
\* and holding a "(" followed by a ")" appends one method to methods and
\* makes it the current method.
C24_SignatureLineExtracted ==
    [][(readsLine /\ looksLikeSignature(trimmed[lineRead]))
           => /\ Len(analysis'.methods) = Len(analysis.methods) + 1
              /\ currentMethod' = Len(analysis'.methods)
      ]_vars

\* ------------------------------------------------------------------------
\* C26
\* ------------------------------------------------------------------------

\* the line closes a member or is the trailer of the disassembly
closesMethod(text) ==
    startsWith(text, sCloseBrace) \/ startsWith(text, sSourceFile)

\* C26: a step that reads a line starting with "}" or "SourceFile:" while a
\* method is current applies the pending names to that method (its parameters
\* stay as they are when no name is pending), empties the pending names and
\* leaves no method current; and while no method is current, a step that
\* reads anything but a method signature line changes no parameter of any
\* method.
C26_MethodEndFlushes ==
    [][/\ (readsLine /\ closesMethod(trimmed[lineRead]) /\ currentMethod # 0)
           => /\ analysis'.methods[currentMethod].parameters =
                     IF DOMAIN methodParameters # {}
                     THEN named(analysis.methods[currentMethod].parameters,
                                methodParameters)
                     ELSE analysis.methods[currentMethod].parameters
              /\ methodParameters' = noParameters
              /\ currentMethod' = 0
       /\ (readsLine /\ currentMethod = 0
                     /\ ~isMethodSignature(trimmed[lineRead]))
           => /\ currentMethod' = 0
              /\ \A m \in 1..Len(analysis.methods) :
                     analysis'.methods[m].parameters =
                         analysis.methods[m].parameters
      ]_vars

\* "int this"
sIntThis == <<"i","n","t"," ","t","h","i","s">>

\* the method's table was cut by "}" with a name pending, the name was
\* applied, and a further table header and data line were read since
C26_Witness ==
    /\ lines = <<LineResize, LineTable, LineSlotThis, LineBrace, LineTable,
                 LineSlotThis>>
    /\ analysis.methods[1].parameters = <<sIntThis>>
    /\ currentMethod = 0
    /\ methodParameters = noParameters

\* ------------------------------------------------------------------------
\* C27
\* ------------------------------------------------------------------------

\* "static"
sStatic == <<"s","t","a","t","i","c">>

\* the method is declared static
isStatic(method) ==
    \E k \in 1..Len(method.modifiers) : method.modifiers[k] = sStatic

\* the names that the variable-table data lines read so far give to a slot
slotNames(slot) ==
    {paramMatch(trimmed[lines[k]]).name :
        k \in {i \in 1..Len(lines) :
                  /\ paramMatch(trimmed[lines[i]]) # null
                  /\ parseInt(paramMatch(trimmed[lines[i]]).slot) = slot}}

\* C27: the parameter at position j (counted from 1) of a method that is not
\* static is either as declared, or named after a variable-table entry of
\* slot j, or named param<j>; it never carries the name of an entry of slot
\* 0, which is the receiver's.
C27_ReceiverNotAParameter ==
    \A m \in 1..Len(analysis.methods) :
        ~isStatic(analysis.methods[m])
        => \A j \in 1..Len(analysis.methods[m].parameters) :
               \/ analysis.methods[m].parameters[j] = declared(m).parameters[j]
               \/ \E name \in slotNames(j) \cup {sParam \o numberToString(j)} :
                      analysis.methods[m].parameters[j] =
                          declared(m).parameters[j] \o <<" ">> \o name

\* ------------------------------------------------------------------------
\* C28
\* ------------------------------------------------------------------------

\* the position in the text of the signature line of the m-th listed method
signatureIndex(m) ==
    CHOOSE i \in 1..Len(lines) :
        /\ listsMethod(lines[i])
        /\ Cardinality({k \in 1..i : listsMethod(lines[k])}) = m

\* the line at position k comes after the signature line of the m-th listed
\* method with no line of another member, recognized or not, between them
belongsTo(k, m) ==
    /\ k > signatureIndex(m)
    /\ \A i \in (signatureIndex(m) + 1)..k :
           ~looksLikeSignature(trimmed[lines[i]])

\* the names of the variable-table data lines of the m-th listed method
ownNames(m) ==
    {paramMatch(trimmed[lines[k]]).name :
        k \in {i \in 1..Len(lines) :
                  paramMatch(trimmed[lines[i]]) # null /\ belongsTo(i, m)}}

\* C28: every parameter of a listed method is as declared or carries a name
\* taken from a variable-table line of that method's own member (or
\* param<j>): the table lines that follow the line of another member, such
\* as a private method or a constructor, give it no name.
C28_UnrecognizedMemberTables ==
    \A m \in 1..Len(analysis.methods) :
        \A j \in 1..Len(analysis.methods[m].parameters) :
            \/ analysis.methods[m].parameters[j] = declared(m).parameters[j]
            \/ \E name \in ownNames(m) \cup {sParam \o numberToString(j)} :
                   analysis.methods[m].parameters[j] =
                       declared(m).parameters[j] \o <<" ">> \o name

\* ------------------------------------------------------------------------
\* C29
\* ------------------------------------------------------------------------

\* a "LocalVariableTable:" line was read after the signature line of the
\* m-th listed method
headerSince(m) ==
    \E i \in (signatureIndex(m) + 1)..Len(lines) :
        isTableHeader(trimmed[lines[i]])

\* C29: a step that records a name for the current method reads a data line
\* that comes after a "LocalVariableTable:" line read since that method's
\* own signature line; a table opened before the signature line does not
\* count.
C29_TableOpenedByOwnHeader ==
    [][(readsLine /\ methodParameters' # methodParameters
                  /\ methodParameters' # noParameters)
           => currentMethod # 0 /\ headerSince(currentMethod)
      ]_vars

\* ------------------------------------------------------------------------
\* C25
\* ------------------------------------------------------------------------

\* how many "<" are still open after the first p characters of the text
openBrackets(text, p) ==
    Cardinality({k \in 1..p : text[k] = "<"})
        - Cardinality({k \in 1..p : text[k] = ">"})

\* the places of the text where an extends clause starts: the word extends,
\* outside every pair of angle brackets, followed by a name
extendsClauses(text) ==
    {p \in 0..(Len(text) - 1) :
        extendsMatchAt(text, p) # undefined /\ openBrackets(text, p) = 0}

\* the name that follows extends in the extends clause of a declaration, or
\* undefined when the declaration has no such clause
clauseName(text) ==
    IF extendsClauses(text) = {}
    THEN undefined
    ELSE extendsMatchAt(text, MinOf(extendsClauses(text)))

\* C25: a step that reads a class declaration line leaves as superClass the
\* name that follows extends in the extends clause of that line, and leaves
\* superClass undefined when the line has no extends clause.
C25_SuperClassFromExtendsClause ==
    [][(readsLine /\ isClassDeclaration(trimmed[lineRead]))
           => analysis'.superClass = clauseName(trimmed[lineRead])
      ]_vars

\* ------------------------------------------------------------------------
\* C30
\* ------------------------------------------------------------------------

\* the classes of the calls of getInheritanceHierarchy in progress, the
\* outermost first
classesInProgress == [k \in 1..Len(frames) |-> frames[k].className]

\* C30: getInheritanceHierarchy comes to an end: no call is made for a class
\* while a call for that class is in progress, so the calls nest at most as
\* deep as there are class names. (A call nested in a call for the same class
\* meets the same index and the same disassembly as that call, and makes the
\* same call again.)
C30_HierarchyTerminates ==
    \A i, j \in 1..Len(classesInProgress) :
        i < j => classesInProgress[i] # classesInProgress[j]

\* ------------------------------------------------------------------------
\* C31
\* ------------------------------------------------------------------------

\* the step is a call of decompileClass that ends
callEnds ==
    /\ returned'.call = "decompileClass"
    /\ (returned' # returned \/ events' # events)

\* C31: when the last call of decompileClass had useCache true and returned
\* a text for a class, the next call with useCache true for that class
\* returns the same text and does not run the decompiler, the cache entry
\* being still there.
C31_CachedTextRepeats ==
    [][(/\ ended("decompileClass")
        /\ returned.useCache
        /\ returned.status = "returned"
        /\ callEnds
        /\ returned'.className = returned.className
        /\ returned'.useCache
        /\ returned.className \in DOMAIN cacheFiles)
           => /\ returned'.status = "returned"
              /\ returned'.value = returned.value
              /\ \A k \in 1..Len(events') :
                     events'[k].call # "decompileWithCfr"
      ]_vars

\* ------------------------------------------------------------------------
\* C32
\* ------------------------------------------------------------------------

\* the call that ends extracted the class file
extractedClassFile ==
    \E k \in 1..Len(events') :
        events'[k] = did("extractClassFile", returned'.className)

\* C32: when a call of decompileClass with useCache false that extracted the
\* class file ends, returning or throwing, the temporary class file is gone.
C32_TempFileRemoved ==
    [][(callEnds /\ ~returned'.useCache /\ extractedClassFile)
           => returned'.className \notin tempFiles'
      ]_vars

\* ------------------------------------------------------------------------
\* C33
\* ------------------------------------------------------------------------

\* C33: a call of decompileClass that is given no cfrPath works with the
\* path that findCfrJar discovers (or with none, when nothing is found),
\* whatever path an earlier call was given.
C33_ToolPathPerCall ==
    [][(callEnds /\ returned'.cfrPath = <<>>) => cfrPath' \in {<<>>, CfrJar}
      ]_vars

\* ------------------------------------------------------------------------
\* C34
\* ------------------------------------------------------------------------

\* C34: a call of decompileClass with useCache true for a class that has a
\* cache entry, made without a cfrPath by a service that has no tool path
\* and finds none, returns the cached text.
C34_CacheHitWithoutTool ==
    [][(cacheHit /\ callEnds /\ returned'.cfrPath = <<>>
                 /\ cfrPath = <<>> /\ cfrPath' = <<>>)
           => /\ returned'.status = "returned"
              /\ returned'.value = cacheFiles[returned'.className]
      ]_vars

\* ------------------------------------------------------------------------
\* C35
\* ------------------------------------------------------------------------

\* the step is a call of scanProject that ends
scanEnds == returned'.call = "scanProject"

\* the entries of the archives that the steps of a scan read, in order
RECURSIVE classesRead(_)
classesRead(steps) ==
    IF steps = <<>>
    THEN <<>>
    ELSE (IF Head(steps).call = "extractClassesFromJar" /\ ~Head(steps).failed
          THEN extractClassesFromJar(Head(steps).jarPath)
          ELSE <<>>) \o classesRead(Tail(steps))

\* C35: a call of scanProject with forceRefresh false on a project that has
\* an index file returns the jarCount, classCount and sampleEntries of that
\* file, runs no dependency resolution, opens no archive and leaves the file
\* as it is; a call with forceRefresh true runs the resolution, and when it
\* returns the index file holds the entries of the archives that this call
\* read, whatever it held before.
C35_StoredIndexUnlessForced ==
    [][/\ (scanEnds /\ ~returned'.forceRefresh /\ indexFile.exists)
           => /\ returned'.status = "returned"
              /\ returned'.value =
                     [jarCount |-> indexFile.jarCount,
                      classCount |-> indexFile.classCount,
                      sampleEntries |-> indexFile.sampleEntries]
              /\ events' = <<>>
              /\ indexFile' = indexFile
       /\ (scanEnds /\ returned'.forceRefresh)
           => /\ \E k \in 1..Len(events') : events'[k].call = "mvn"
              /\ returned'.status = "returned"
                 => /\ indexFile'.exists
                    /\ indexFile'.classIndex = classesRead(events')
                    /\ returned'.value.classCount = Len(classesRead(events'))
      ]_vars

\* a scan without forceRefresh has answered from an index file that holds
\* the classes of one archive
C35_Witness ==
    /\ ended("scanProject")
    /\ ~returned.forceRefresh
    /\ returned.status = "returned"
    /\ events = <<>>
    /\ indexFile.exists
    /\ returned.value.jarCount = 1
    /\ returned.value.classCount = indexFile.classCount

\* ------------------------------------------------------------------------
\* C36
\* ------------------------------------------------------------------------

\* C36: a call of scanProject that throws leaves the index file as it was,
\* so that findJarForClass answers as before.
C36_FailedScanKeepsIndex ==
    [][(scanEnds /\ returned'.status = "threw" /\ indexFile.exists)
           => /\ indexFile' = indexFile
              /\ \A name \in LookedUp :
                     findJarForClass(indexFile', name) =
                         findJarForClass(indexFile, name)
      ]_vars

\* ------------------------------------------------------------------------
\* C37
\* ------------------------------------------------------------------------

\* the archives that the scan opened and the ones among them it read
opens == SelectSeq(events, LAMBDA step : step.call = "extractClassesFromJar")

reads == SelectSeq(opens, LAMBDA step : ~step.failed)

\* "Foo -> a.jar" for an entry of the index
sampleOf(entry) == entry.className \o sArrow \o basename(entry.jarPath)

\* C37: a scan that opens archives returns even when some cannot be read,
\* after reading the others; its jarCount is the number of archives read,
\* its classCount the number of entries of the index file, and its
\* sampleEntries describe the first entries of the index, ten at most.
C37_ScanCounts ==
    (ended("scanProject") /\ opens # <<>>)
        => /\ returned.status = "returned"
           /\ indexFile.classIndex = classesRead(events)
           /\ returned.value.jarCount = Len(reads)
           /\ returned.value.classCount = Len(indexFile.classIndex)
           /\ Len(returned.value.sampleEntries) <= 10
           /\ Len(returned.value.sampleEntries) =
                  MinOf({10, Len(indexFile.classIndex)})
           /\ \A k \in 1..Len(returned.value.sampleEntries) :
                  returned.value.sampleEntries[k] =
                      sampleOf(indexFile.classIndex[k])

\* a scan opened an unreadable archive first and then read the large one:
\* the index has more entries than the result has samples
C37_Witness ==
    /\ ended("scanProject")
    /\ Len(opens) = 2
    /\ opens[1].failed
    /\ ~opens[2].failed
    /\ returned.value.jarCount = 1
    /\ returned.value.classCount = WideJarSize
    /\ Len(returned.value.sampleEntries) = 10

\* ------------------------------------------------------------------------
\* C38
\* ------------------------------------------------------------------------

\* C38: while a call of decompileClass has extracted the class file and its
\* decompilation has not finished, the class file is there, whole, whatever
\* the other call does; and a call that extracted the class file and whose
\* own CFR process does not fail returns the source.
C38_CallsDoNotInterfere ==
    \A i \in 1..Len(frames) :
        /\ frames[i].at = "cfr" => frames[i].className \in tempFiles
        /\ (frames[i].at = "done" /\ frames[i].extracted
                                  /\ frames[i].env.fault = "none")
           => frames[i].result.status = "returned"
====
